---- MODULE Spec2Model ----
(***************************************************************************)
(* Model of flow-tester's ReorderBuffer (ReorderBuffer.h/.cpp), of the     *)
(* drivers in reorder_test.cpp that exercise it, and of the packet intake  *)
(* of receiver.cpp (UDPReceiver) that feeds it.                            *)
(*                                                                         *)
(* The ReorderBuffer object is the record rb, one field per data member.   *)
(* Every member function is an operator from the object (and arguments)    *)
(* to the object after the call (and the returned value).  Sequence        *)
(* numbers are uint64_t in the source; all values of the model stay far    *)
(* below 2^31, so the only place where the unsigned width is visible is    *)
(* the subtraction sn - m_tail_sn in idx_for, modelled explicitly.         *)
(***************************************************************************)
EXTENDS Integers, Naturals, Sequences, FiniteSets, TLC

VARIABLES
    rb,                 \* the ReorderBuffer object
    burst_len,          \* caller's variable receiving addPacket's return value
    flow_burst_len,     \* caller's variable behind int *flow_burst_len
    flow_burst_count,   \* caller's variable behind int *flow_burst_count
    drv                 \* locals of the driving test function (and its bookkeeping)

vars == <<rb, burst_len, flow_burst_len, flow_burst_count, drv>>

(***************************************************************************)
(* Bounds.                                                                 *)
(***************************************************************************)
MaxLen == 4         \* buffer lengths 1..MaxLen are constructed
MaxFirstSn == 3     \* a run starts at a stream_sn in 1..MaxFirstSn
MaxLossy == 7       \* iterations of the lossy loop of test_calibrated
MaxExtra == 3       \* arrivals beyond the minimum a scenario needs
MaxGap == 3         \* test_spike skips between L and L + MaxGap sequence numbers
MaxRounds == 4      \* at most MaxRounds rounds are withheld in test_flowlets
MaxRun == 12        \* arrivals of an in-order loss-free run
MaxPorts == 3       \* flowlets 0..MaxPorts-1
MaxSn == 7          \* stream_sn offered by the unconstrained driver
MaxFlowSn == 5      \* flow_sn offered by the flow driver
MaxFlowCalls == 4   \* addPacket calls made by the flow driver
MaxCalls == 3       \* addPacket calls made by the unconstrained driver
MaxCopies == 256    \* extra copies of one stream_sn made by the duplicate driver
MaxStreamCalls == 5 \* addPacket calls made by the stream driver
MaxStreamSn == 5    \* stream_sn offered by the stream driver
MaxIsoRun == 10     \* arrivals admitted by the isolated-loss driver
MaxRunLen == 6      \* the lost-run driver constructs buffer lengths 5..MaxRunLen
MaxReportCalls == 4 \* addPacket calls made by the report driver
MaxIvSteps == 4     \* arrivals and queries made by the interval driver
MaxRxSn == 4        \* stream_sn carried by the datagrams of the intake driver
MaxReads == 2       \* reads delivered by the intake driver
PoolSize == 1       \* buffers a receiver's storage starts with
IntakeLen == 1      \* length of the reorder buffer behind the intake driver
MaxTicks == 2       \* flows timer ticks of the sampler driver
MaxFlowlets == 3    \* sockets of the sender's round-robin
MaxSends == 6       \* datagrams the sender driver writes
MaxWinLen == 4      \* buffer lengths 1..MaxWinLen of the window driver
MaxWinSn == 9       \* stream_sn offered by the window driver
MaxWinCalls == 4    \* addPacket calls made by the window driver
MaxRevLen == 4      \* buffer length of the reversal driver
MaxHigh == 12       \* highest flow_sn the reversal driver climbs to
MaxFarLen == 3      \* buffer lengths 1..MaxFarLen of the far driver
MaxNearCalls == 2   \* arrivals with a small stream_sn made by the far driver
MaxNearSn == 4      \* small stream_sn offered by the far driver
MaxFarLo == 6       \* the far arrival has stream_sn 2^32 + (0..MaxFarLo)
MaxStride == 3      \* the strided loop of basic advances by 1..MaxStride
MaxWorkers == 2     \* worker threads of the loop's pool that run queued record writes
MaxWrites == 3      \* record writes queued with uv_queue_work in one run

BasicLen == 8       \* buffer length and loop count of basic
BasicStride == 2    \* stride of the first loop of basic

Lengths == 1..MaxLen
Ports == 0..(MaxPorts - 1)
NULL == [null |-> TRUE]

Max(a, b) == IF a >= b THEN a ELSE b
Min(a, b) == IF a <= b THEN a ELSE b
Abs(a) == IF a < 0 THEN -a ELSE a

(***************************************************************************)
(* struct ErrorInterval, value-initialised.                                *)
(***************************************************************************)
ErrorInterval ==
    [last_known_sn |-> 0, burst_count |-> 0, reverses |-> 0,
     duplicates |-> 0, longest_burst |-> 0, seq_breaks |-> 0]

(***************************************************************************)
(* ReorderBuffer::ReorderBuffer(int len)                                   *)
(***************************************************************************)
ReorderBuffer(len) ==
    [m_buffer_len |-> len,
     m_buffer |-> [i \in 0..(len - 1) |-> 0],
     m_tail_idx |-> 0,
     m_head_idx |-> 0,
     m_tail_sn |-> 0,
     m_last_spilled_good_sn |-> 0,
     m_drops |-> 0,
     m_dups |-> 0,
     m_port_seq_map |-> [p \in Ports |-> NULL],
     m_smallest_received_sn |-> 0,
     m_largest_received_sn |-> 0]

(***************************************************************************)
(* int ReorderBuffer::occupancy() const                                    *)
(* diff % m_buffer_len equals diff for 0 <= diff < m_buffer_len; a         *)
(* negative diff overwrites ret with m_buffer_len + diff.                  *)
(***************************************************************************)
occupancy(b) ==
    IF b.m_tail_sn = 0 THEN 0
    ELSE LET diff == b.m_head_idx - b.m_tail_idx
         IN  IF diff < 0 THEN b.m_buffer_len + diff
             ELSE 1 + (diff % b.m_buffer_len)

lowest_possible_sn(b) ==
    LET diff == b.m_buffer_len - occupancy(b)
    IN  IF b.m_tail_sn > diff THEN b.m_tail_sn - diff ELSE 0

\* mutant: the last sequence number that fits is taken one too high
highest_possible_sn_plus1(b) == b.m_tail_sn + b.m_buffer_len

highest_possible_sn(b) == b.m_tail_sn + b.m_buffer_len - 1

(***************************************************************************)
(* 2^64 mod len, by repeated squaring of 2^16 mod len.                     *)
(***************************************************************************)
Sq(x, len) == (x * x) % len
Two64Mod(len) == Sq(Sq(65536 % len, len), len)

(***************************************************************************)
(* int ReorderBuffer::idx_for(uint64_t sn) const                           *)
(* m_tail_idx + (sn - m_tail_sn) is evaluated in uint64_t: when            *)
(* sn < m_tail_sn the difference wraps to 2^64 - (m_tail_sn - sn), and     *)
(* the sum wraps back only if m_tail_idx >= m_tail_sn - sn.                *)
(***************************************************************************)
\* mutant: the sum is evaluated in a signed type, whose remainder is negative
\* for a negative sum
idx_for_signed(b, sn) ==
    LET x == b.m_tail_idx + (sn - b.m_tail_sn)
    IN  IF x >= 0 THEN x % b.m_buffer_len ELSE -((-x) % b.m_buffer_len)

\* mutant: the index is taken relative to slot 0 instead of m_tail_idx
idx_for_no_tail_idx(b, sn) ==
    IF sn >= b.m_tail_sn
    THEN (sn - b.m_tail_sn) % b.m_buffer_len
    ELSE (Two64Mod(b.m_buffer_len) + b.m_buffer_len * (b.m_tail_sn - sn)
            - (b.m_tail_sn - sn)) % b.m_buffer_len

idx_for(b, sn) ==
    IF sn >= b.m_tail_sn
    THEN (b.m_tail_idx + (sn - b.m_tail_sn)) % b.m_buffer_len
    ELSE LET d == b.m_tail_sn - sn
         IN  IF b.m_tail_idx >= d
             THEN (b.m_tail_idx - d) % b.m_buffer_len
             ELSE (Two64Mod(b.m_buffer_len) + b.m_buffer_len * d
                     + b.m_tail_idx - d) % b.m_buffer_len

(***************************************************************************)
(* void ReorderBuffer::mark(uint64_t sn); slots are uint8_t.               *)
(***************************************************************************)
\* mutant: an arrival below the tail moves the tail back to its stream_sn
mark_moves_tail(b, sn) ==
    LET largest_sn == b.m_tail_sn + occupancy(b) - 1
        idx == idx_for(b, sn)
    IN  [b EXCEPT !.m_buffer[idx] = (@ + 1) % 256,
                  !.m_head_idx = IF sn > largest_sn THEN idx ELSE @,
                  !.m_tail_sn = IF sn < @ THEN sn ELSE @,
                  !.m_tail_idx = IF sn < b.m_tail_sn THEN idx ELSE @]
mark(b, sn) ==
    LET largest_sn == b.m_tail_sn + occupancy(b) - 1
        idx == idx_for(b, sn)
    IN  [b EXCEPT !.m_buffer[idx] = (@ + 1) % 256,
                  !.m_head_idx = IF sn > largest_sn THEN idx ELSE @]

(***************************************************************************)
(* The tests check_for_burst_error makes on discontinuity, and its update  *)
(* of longest_burst.                                                       *)
(***************************************************************************)
\* mutant: only a forward discontinuity counts as a continuity break
seq_break_forward_only(discontinuity) == discontinuity > 2
seq_break(discontinuity) == Abs(discontinuity) > 2

\* mutant: a step back by one flow_sn is not counted as a reversal
reversal_below_2(discontinuity) == discontinuity < -2

reversal(discontinuity) == discontinuity < -1

\* mutant: the burst test uses the threshold of the continuity-break test
flow_burst_above_2(discontinuity) == discontinuity > 2

flow_burst(discontinuity) == discontinuity > 1

\* mutant: longest_burst is overwritten by every burst
longest_overwritten(discontinuity, longest_burst) == discontinuity

longest(discontinuity, longest_burst) ==
    IF discontinuity > longest_burst THEN discontinuity ELSE longest_burst

(***************************************************************************)
(* int ReorderBuffer::check_for_burst_error(flow_sn, port, burst_count)    *)
(* Result: the object after the call, the returned length, and the value   *)
(* left in *burst_count (cnt is the value it held before the call).        *)
(***************************************************************************)
check_for_burst_error(b, flow_sn, port, cnt) ==
    LET interval == b.m_port_seq_map[port]
    IN  IF interval = NULL
        THEN [b |-> [b EXCEPT !.m_port_seq_map[port] =
                        [ErrorInterval EXCEPT !.last_known_sn = flow_sn]],
              ret |-> 0, burst_count |-> cnt]
        ELSE LET expected_sn == interval.last_known_sn + 1
                 discontinuity == flow_sn - expected_sn
                 iv1 == [interval EXCEPT
                           !.last_known_sn = flow_sn,
                           !.seq_breaks = IF seq_break(discontinuity) THEN @ + 1 ELSE @]
             IN  IF reversal(discontinuity)
                 THEN [b |-> [b EXCEPT !.m_port_seq_map[port] =
                                 [iv1 EXCEPT !.reverses = @ + 1]],
                       ret |-> 0, burst_count |-> cnt]
                 ELSE IF discontinuity = -1
                 THEN [b |-> [b EXCEPT !.m_port_seq_map[port] =
                                 [iv1 EXCEPT !.duplicates = @ + 1]],
                       ret |-> 0, burst_count |-> cnt]
                 ELSE IF flow_burst(discontinuity)
                 THEN [b |-> [b EXCEPT !.m_port_seq_map[port] =
                                 [iv1 EXCEPT
                                    !.burst_count = @ + 1,
                                    !.longest_burst = longest(discontinuity, @)]],
                       ret |-> discontinuity,
                       burst_count |-> iv1.burst_count + 1]
                 ELSE [b |-> [b EXCEPT !.m_port_seq_map[port] = iv1],
                       ret |-> 0, burst_count |-> cnt]

(***************************************************************************)
(* The test of spill on an empty slot: it lengthens the current burst      *)
(* only from the third stream_sn after the last good one spilled.          *)
(***************************************************************************)
\* mutant: every empty slot lengthens the current burst
burst_continues_at_once(tail_sn, last_spilled_good_sn) ==
    tail_sn > last_spilled_good_sn
burst_continues(tail_sn, last_spilled_good_sn) ==
    tail_sn > last_spilled_good_sn + 2
(***************************************************************************)
(* The for loop of ReorderBuffer::spill: st is the object together with    *)
(* the locals current_burst and largest_burst; n iterations remain.        *)
(***************************************************************************)
RECURSIVE spill_loop(_, _)
spill_loop(st, n) ==
    IF n = 0 THEN st
    ELSE LET b == st.b
             tail == b.m_buffer[b.m_tail_idx]
             dropped == (tail = 0)
             b1 == [b EXCEPT !.m_buffer[b.m_tail_idx] = 0]
             b2 == IF ~dropped
                   THEN [b1 EXCEPT !.m_dups = @ + (tail - 1),
                                   !.m_last_spilled_good_sn = b.m_tail_sn]
                   ELSE [b1 EXCEPT !.m_drops = @ + 1]
             cur == IF ~dropped THEN 0
                    ELSE IF burst_continues(b.m_tail_sn, b.m_last_spilled_good_sn)
                         THEN st.current_burst + 1
                         ELSE st.current_burst
             lrg == IF ~dropped THEN Max(st.largest_burst, cur)
                    ELSE st.largest_burst
             b3 == [b2 EXCEPT !.m_tail_idx = (@ + 1) % b.m_buffer_len,
                              !.m_tail_sn = @ + 1]
         IN  spill_loop([b |-> b3, current_burst |-> cur, largest_burst |-> lrg],
                        n - 1)

(***************************************************************************)
(* The head of ReorderBuffer::spill: the patch-up burst and the number of  *)
(* slots the loop walks.  patchup_burst stays 0 outside the patch-up       *)
(* branch, so adding it to m_drops there changes nothing.                  *)
(***************************************************************************)
\* mutant: the patch-up burst counts the arrival itself as a drop
spill_distance_patchup_plus1(b, sn) ==
    LET distance == sn - highest_possible_sn(b)
    IN  IF distance >= b.m_buffer_len
        THEN [patchup_burst |-> distance, distance |-> b.m_buffer_len]
        ELSE [patchup_burst |-> 0, distance |-> Min(occupancy(b), distance)]

spill_distance(b, sn) ==
    LET distance == sn - highest_possible_sn(b)
    IN  IF distance >= b.m_buffer_len
        THEN [patchup_burst |-> distance - 1, distance |-> b.m_buffer_len]
        ELSE [patchup_burst |-> 0, distance |-> Min(occupancy(b), distance)]

(***************************************************************************)
(* int ReorderBuffer::spill(u_int64_t sn)                                  *)
(***************************************************************************)
spill_entry(b, sn) ==
    [b |-> [b EXCEPT !.m_drops = @ + spill_distance(b, sn).patchup_burst],
     current_burst |-> 0, largest_burst |-> 0]

spill(b, sn) ==
    LET d == spill_distance(b, sn)
        patchup_burst == d.patchup_burst
        st == spill_loop(spill_entry(b, sn), d.distance)
        b1 == IF patchup_burst # 0
              THEN [st.b EXCEPT !.m_tail_sn = sn,
                                !.m_head_idx = st.b.m_tail_idx,
                                !.m_buffer[st.b.m_tail_idx] = (@ + 1) % 256]
              ELSE mark(st.b, sn)
        largest_burst == IF st.current_burst # 0
                         THEN Max(st.largest_burst, st.current_burst + patchup_burst)
                         ELSE Max(st.largest_burst, patchup_burst)
    IN  [b |-> b1, ret |-> largest_burst]

(***************************************************************************)
(* The branch of addPacket for the first sample in an empty buffer.        *)
(***************************************************************************)
\* mutant: the tail slot is incremented, as in the patch-up branch of spill
first_sample_increments(b, sn) ==
    [b EXCEPT !.m_tail_sn = sn,
              !.m_head_idx = b.m_tail_idx,
              !.m_buffer[b.m_tail_idx] = (@ + 1) % 256]
first_sample(b, sn) ==
    [b EXCEPT !.m_tail_sn = sn,
              !.m_head_idx = b.m_tail_idx,
              !.m_buffer[b.m_tail_idx] = 1]

(***************************************************************************)
(* The test of addPacket for a packet that is too old.                     *)
(***************************************************************************)
\* mutant: the sequence number just below lsn is still admitted
too_old_below(sn, lsn) == sn + 1 < lsn
too_old(sn, lsn) == sn < lsn

(***************************************************************************)
(* int ReorderBuffer::addPacket(sn, flow_sn, port, flow_burst_len,         *)
(*                              flow_burst_count)                          *)
(* fbl and fbc are the values the caller's two output variables hold       *)
(* before the call; the result carries their values after it.              *)
(***************************************************************************)
addPacket(b, sn, flow_sn, port, fbl, fbc) ==
    LET b0 == [b EXCEPT !.m_largest_received_sn = Max(sn, @),
                        !.m_smallest_received_sn = Min(sn, @)]
        c == check_for_burst_error(b0, flow_sn, port, fbc)
        b1 == c.b
        lsn == lowest_possible_sn(b1)
        hsn == highest_possible_sn(b1)
    IN  IF b1.m_tail_sn = 0
        THEN [b |-> first_sample(b1, sn),
              ret |-> 0, flow_burst_len |-> fbl,
              flow_burst_count |-> c.burst_count]
        ELSE IF too_old(sn, lsn)
        THEN [b |-> b1, ret |-> 0, flow_burst_len |-> c.ret,
              flow_burst_count |-> c.burst_count]
        ELSE IF sn <= hsn
        THEN [b |-> mark(b1, sn), ret |-> 0, flow_burst_len |-> c.ret,
              flow_burst_count |-> c.burst_count]
        ELSE LET s == spill(b1, sn)
             IN  [b |-> s.b, ret |-> Max(0, s.ret), flow_burst_len |-> c.ret,
                  flow_burst_count |-> c.burst_count]

(***************************************************************************)
(* One call b->addPacket(sn, flow_sn, port, &flow_burst_len,               *)
(* &flow_burst_count) whose result the caller stores in burst_len.         *)
(***************************************************************************)
Call(sn, flow_sn, port, fbl, fbc) ==
    LET r == addPacket(rb, sn, flow_sn, port, fbl, fbc)
    IN  /\ rb' = r.b
        /\ burst_len' = r.ret
        /\ flow_burst_len' = r.flow_burst_len
        /\ flow_burst_count' = r.flow_burst_count

(***************************************************************************)
(* test_calibrated (reorder_test.cpp): one flow, flow_sn = stream_sn.      *)
(* A first packet, a loop that either withholds the next stream_sn         *)
(* (drop(percent), counted in not_sent) or admits it, then a flush of      *)
(* in-order packets as long as the buffer.                                 *)
(***************************************************************************)
CalInit ==
    /\ \E len \in Lengths : rb = ReorderBuffer(len)
    /\ burst_len = 0
    /\ flow_burst_len = 0
    /\ flow_burst_count = 0
    /\ \E s \in 1..MaxFirstSn :
         drv = [pc |-> "first", sn |-> s, not_sent |-> 0, i |-> 0, k |-> 0]

CalFirst ==
    /\ drv.pc = "first"
    /\ Call(drv.sn, drv.sn, 0, flow_burst_len, flow_burst_count)
    /\ drv' = [drv EXCEPT !.pc = "loop", !.sn = @ + 1]

CalDrop ==
    /\ drv.pc = "loop"
    /\ drv.i < MaxLossy
    /\ drv' = [drv EXCEPT !.not_sent = @ + 1, !.sn = @ + 1, !.i = @ + 1]
    /\ UNCHANGED <<rb, burst_len, flow_burst_len, flow_burst_count>>

CalSend ==
    /\ drv.pc = "loop"
    /\ drv.i < MaxLossy
    /\ Call(drv.sn, drv.sn, 0, flow_burst_len, flow_burst_count)
    /\ drv' = [drv EXCEPT !.sn = @ + 1, !.i = @ + 1]

CalLoopEnd ==
    /\ drv.pc = "loop"
    /\ drv' = [drv EXCEPT !.pc = "flush"]
    /\ UNCHANGED <<rb, burst_len, flow_burst_len, flow_burst_count>>

CalFlush ==
    /\ drv.pc = "flush"
    /\ drv.k < rb.m_buffer_len
    /\ Call(drv.sn, drv.sn, 0, flow_burst_len, flow_burst_count)
    /\ drv' = [drv EXCEPT !.sn = @ + 1, !.k = @ + 1,
                          !.pc = IF drv.k + 1 = rb.m_buffer_len THEN "done" ELSE @]

CalNext == CalFirst \/ CalDrop \/ CalSend \/ CalLoopEnd \/ CalFlush

SpecCalibrated == CalInit /\ [][CalNext]_vars

\* C1: after the flush, drops() equals the number of withheld stream_sn
\* (test_calibrated: not_sent == b->drops()).
C1_DropsEqualWithheld ==
    drv.pc = "done" => rb.m_drops = drv.not_sent

\* C2: after the flush, the port's seq_breaks equals the number of withheld
\* packets (test_calibrated: not_sent == iv.seq_breaks).
C2_SeqBreaksEqualWithheld ==
    drv.pc = "done" => rb.m_port_seq_map[0].seq_breaks = drv.not_sent

(***************************************************************************)
(* test_spike (reorder_test.cpp): in-order arrivals that fill the buffer,  *)
(* one arrival that skips gap sequence numbers, in-order arrivals again.   *)
(* The driver keeps the test's handling of flow_sn: it jumps by gap and    *)
(* is not incremented between the spike and the arrival after it.          *)
(***************************************************************************)
SpikeInit ==
    /\ \E len \in Lengths : rb = ReorderBuffer(len)
    /\ burst_len = 0
    /\ flow_burst_len = 0
    /\ flow_burst_count = 0
    /\ \E s \in 1..MaxFirstSn :
         drv = [pc |-> "fill", sn |-> s, flow_sn |-> 1, i |-> 0, gap |-> 0,
                drops0 |-> 0, j |-> 0]

SpikeFill ==
    /\ drv.pc = "fill"
    /\ drv.i < rb.m_buffer_len + MaxExtra
    /\ Call(drv.sn, drv.flow_sn, 0, flow_burst_len, flow_burst_count)
    /\ drv' = [drv EXCEPT !.sn = @ + 1, !.flow_sn = @ + 1, !.i = @ + 1]

SpikeGap ==
    /\ drv.pc = "fill"
    /\ drv.i >= rb.m_buffer_len
    /\ \E gap \in rb.m_buffer_len..(rb.m_buffer_len + MaxGap) :
         /\ Call(drv.sn + gap, drv.flow_sn + gap, 0, flow_burst_len, flow_burst_count)
         /\ drv' = [drv EXCEPT !.pc = "after", !.sn = drv.sn + gap + 1,
                               !.flow_sn = drv.flow_sn + gap, !.gap = gap,
                               !.drops0 = rb.m_drops, !.j = 0]

SpikeAfter ==
    /\ drv.pc = "after"
    /\ drv.j < rb.m_buffer_len + MaxExtra
    /\ Call(drv.sn, drv.flow_sn, 0, flow_burst_len, flow_burst_count)
    /\ drv' = [drv EXCEPT !.sn = @ + 1, !.flow_sn = @ + 1, !.j = @ + 1]

SpikeNext == SpikeFill \/ SpikeGap \/ SpikeAfter

SpecSpike == SpikeInit /\ [][SpikeNext]_vars

\* C3: the arrival that skips gap >= L sequence numbers after at least L
\* in-order arrivals returns exactly gap and raises drops() by exactly gap;
\* every following in-order arrival returns 0 and leaves drops() unchanged.
C3_SpikeReturnsGap ==
    drv.pc = "after" =>
        /\ rb.m_drops = drv.drops0 + drv.gap
        /\ burst_len = IF drv.j = 0 THEN drv.gap ELSE 0

C3_Witness ==
    /\ drv.pc = "after"
    /\ drv.j > rb.m_buffer_len
    /\ drv.gap > rb.m_buffer_len
    /\ rb.m_buffer_len = 3
    /\ rb.m_drops = drv.gap

(***************************************************************************)
(* test_out_of_order (reorder_test.cpp): the sequence numbers of the       *)
(* range [a, a+W) are admitted in shuffled order into an empty buffer,     *)
(* flow_sn = stream_sn on port 0, then in-order arrivals follow.  The      *)
(* test's second loop starts at the last number of the range (it re-admits *)
(* 200); the driver starts it either there or at a+W.                      *)
(***************************************************************************)
OooInit ==
    /\ \E len \in Lengths : rb = ReorderBuffer(len)
    /\ burst_len = 0
    /\ flow_burst_len = 0
    /\ flow_burst_count = 0
    /\ \E a \in 1..MaxFirstSn : \E W \in 1..MaxLen :
         /\ W <= rb.m_buffer_len
         /\ drv = [pc |-> "shuffle", a |-> a, W |-> W, sn_vec |-> a..(a + W - 1),
                   prev_sn |-> 0, ooo |-> 0, sn |-> 0, n |-> 0, again |-> FALSE]

OooShuffled ==
    /\ drv.pc = "shuffle"
    /\ \E sn \in drv.sn_vec :
         /\ Call(sn, sn, 0, flow_burst_len, flow_burst_count)
         /\ drv' = [drv EXCEPT !.sn_vec = @ \ {sn},
                               !.ooo = IF sn < drv.prev_sn THEN @ + 1 ELSE @,
                               !.prev_sn = sn]

OooShuffleEnd ==
    /\ drv.pc = "shuffle"
    /\ drv.sn_vec = {}
    /\ \E again \in BOOLEAN :
         drv' = [drv EXCEPT !.pc = "inorder", !.again = again,
                            !.sn = IF again THEN drv.a + drv.W - 1 ELSE drv.a + drv.W]
    /\ UNCHANGED <<rb, burst_len, flow_burst_len, flow_burst_count>>

OooInOrder ==
    /\ drv.pc = "inorder"
    /\ drv.n < rb.m_buffer_len + MaxExtra
    /\ Call(drv.sn, drv.sn, 0, flow_burst_len, flow_burst_count)
    /\ drv' = [drv EXCEPT !.sn = @ + 1, !.n = @ + 1]

OooNext == OooShuffled \/ OooShuffleEnd \/ OooInOrder

SpecOutOfOrder == OooInit /\ [][OooNext]_vars

\* C4: while a permutation of [a, a+W), W <= L, is admitted into an empty
\* buffer and in-order arrivals follow it, drops() stays 0 and every
\* addPacket call returns stream burst length 0.
C4_ReorderTolerance ==
    /\ rb.m_drops = 0
    /\ burst_len = 0

C4_Witness ==
    /\ drv.pc = "inorder"
    /\ ~drv.again
    /\ drv.W = rb.m_buffer_len
    /\ drv.W >= 3
    /\ drv.ooo >= 2
    /\ drv.n > rb.m_buffer_len
    /\ rb.m_tail_sn > drv.a + drv.W

(***************************************************************************)
(* The loss-free loops of test_drops and test_flowlets: K flowlets fed     *)
(* round-robin, stream_sn + 1 per packet, flow_sn + 1 per round.           *)
(***************************************************************************)
InOrderInit ==
    /\ \E len \in Lengths : rb = ReorderBuffer(len)
    /\ burst_len = 0
    /\ flow_burst_len = 0
    /\ flow_burst_count = 0
    /\ \E K \in 1..MaxPorts : \E s \in 1..MaxFirstSn : \E f \in 1..MaxFirstSn :
         drv = [K |-> K, sn |-> s, flow_sn |-> f, port |-> 0, n |-> 0]

InOrderArrive ==
    /\ drv.n < MaxRun
    /\ Call(drv.sn, drv.flow_sn, drv.port, flow_burst_len, flow_burst_count)
    /\ drv' = [drv EXCEPT !.sn = @ + 1, !.n = @ + 1,
                          !.port = (@ + 1) % drv.K,
                          !.flow_sn = IF drv.port + 1 = drv.K THEN @ + 1 ELSE @]

InOrderNext == InOrderArrive

SpecInOrder == InOrderInit /\ [][InOrderNext]_vars

\* C7: during an in-order loss-free run drops() = 0 and duplicates() = 0
\* after every arrival, every port has seq_breaks = 0 and reverses = 0, and
\* every addPacket call returns 0 with flow_burst_len = 0.
C7_InOrderClean ==
    /\ rb.m_drops = 0
    /\ rb.m_dups = 0
    /\ \A p \in Ports : rb.m_port_seq_map[p] # NULL =>
          /\ rb.m_port_seq_map[p].seq_breaks = 0
          /\ rb.m_port_seq_map[p].reverses = 0
    /\ burst_len = 0
    /\ flow_burst_len = 0

C7_Witness ==
    /\ drv.K >= 2
    /\ rb.m_buffer_len = 3
    /\ drv.n > 2 * rb.m_buffer_len
    /\ rb.m_tail_sn > 1 + rb.m_buffer_len
    /\ \A p \in 0..(drv.K - 1) : rb.m_port_seq_map[p] # NULL

(***************************************************************************)
(* test_flowlets (reorder_test.cpp): K flowlets fed round-robin; clean     *)
(* rounds until the window is full, then m rounds in which port bad is     *)
(* withheld, then clean rounds again.  As in the test's second loop, the   *)
(* two output variables are zeroed before every call after the clean       *)
(* phase.  first_len/first_cnt keep what the first arrival on port bad     *)
(* after the gap reported.                                                 *)
(***************************************************************************)
FlInit ==
    /\ \E len \in Lengths : rb = ReorderBuffer(len)
    /\ burst_len = 0
    /\ flow_burst_len = 0
    /\ flow_burst_count = 0
    /\ \E K \in 2..MaxPorts : \E bad \in 0..(K - 1) : \E m \in 2..MaxRounds :
         drv = [pc |-> "clean", K |-> K, bad |-> bad, m |-> m, sn |-> 1,
                flow_sn |-> 1, port |-> 0, sent |-> 0, w |-> 0, after |-> 0,
                reported |-> FALSE, first_len |-> 0, first_cnt |-> 0]

FlAdvance(d) ==
    [d EXCEPT !.sn = @ + 1,
              !.port = (@ + 1) % d.K,
              !.flow_sn = IF d.port + 1 = d.K THEN @ + 1 ELSE @]

FlClean ==
    /\ drv.pc = "clean"
    /\ drv.sent < rb.m_buffer_len + MaxExtra \/ drv.port # 0
    /\ Call(drv.sn, drv.flow_sn, drv.port, flow_burst_len, flow_burst_count)
    /\ drv' = [FlAdvance(drv) EXCEPT !.sent = @ + 1]

FlStartBurst ==
    /\ drv.pc = "clean"
    /\ drv.port = 0
    /\ drv.sent >= rb.m_buffer_len
    /\ drv' = [drv EXCEPT !.pc = "burst"]
    /\ UNCHANGED <<rb, burst_len, flow_burst_len, flow_burst_count>>

FlWithhold ==
    /\ drv.pc = "burst"
    /\ drv.port = drv.bad
    /\ drv' = [FlAdvance(drv) EXCEPT
                 !.w = @ + 1,
                 !.pc = IF drv.port + 1 = drv.K /\ drv.w + 1 = drv.m
                        THEN "tail" ELSE @]
    /\ UNCHANGED <<rb, burst_len, flow_burst_len, flow_burst_count>>

FlBurstOther ==
    /\ drv.pc = "burst"
    /\ drv.port # drv.bad
    /\ Call(drv.sn, drv.flow_sn, drv.port, 0, 0)
    /\ drv' = [FlAdvance(drv) EXCEPT
                 !.pc = IF drv.port + 1 = drv.K /\ drv.w = drv.m
                        THEN "tail" ELSE @]

FlTail ==
    /\ drv.pc = "tail"
    /\ drv.after < rb.m_buffer_len + MaxExtra
    /\ Call(drv.sn, drv.flow_sn, drv.port, 0, 0)
    /\ drv' = [FlAdvance(drv) EXCEPT
                 !.after = @ + 1,
                 !.reported = @ \/ drv.port = drv.bad,
                 !.first_len = IF ~drv.reported /\ drv.port = drv.bad
                               THEN flow_burst_len' ELSE @,
                 !.first_cnt = IF ~drv.reported /\ drv.port = drv.bad
                               THEN flow_burst_count' ELSE @]

FlNext == FlClean \/ FlStartBurst \/ FlWithhold \/ FlBurstOther \/ FlTail

SpecFlowlets == FlInit /\ [][FlNext]_vars

FlClear(iv) ==
    /\ iv.burst_count = 0
    /\ iv.longest_burst = 0
    /\ iv.seq_breaks = 0
    /\ iv.reverses = 0
    /\ iv.duplicates = 0

FlCounts ==
    /\ (drv.pc = "tail" /\ drv.after > rb.m_buffer_len) => rb.m_drops = drv.m
    /\ drv.reported =>
          /\ drv.first_len = drv.m
          /\ drv.first_cnt = 1
          /\ rb.m_port_seq_map[drv.bad].burst_count = 1
          /\ rb.m_port_seq_map[drv.bad].longest_burst = drv.m
    /\ \A p \in 0..(drv.K - 1) :
          (p # drv.bad /\ rb.m_port_seq_map[p] # NULL) => FlClear(rb.m_port_seq_map[p])

\* C6 as stated (any buffer length): no call returns a non-zero stream burst
\* length; once more than L packets followed the withheld rounds drops() = m;
\* the first arrival on port bad after the gap reports flow_burst_len = m and
\* flow_burst_count = 1 and leaves burst_count = 1 and longest_burst = m;
\* every other port has all five counters at 0.
C6_FlowletBurst ==
    /\ burst_len = 0
    /\ FlCounts

\* C6 amended: the counters are as stated for every buffer length, and no
\* call returns a non-zero stream burst length when the buffer has at least
\* 3 slots.
C6_FlowletBurstLen3 ==
    /\ rb.m_buffer_len >= 3 => burst_len = 0
    /\ FlCounts

C6_Witness ==
    /\ drv.pc = "tail"
    /\ drv.after > rb.m_buffer_len
    /\ rb.m_buffer_len >= 3
    /\ drv.K >= 3
    /\ drv.m >= 3
    /\ rb.m_drops = drv.m
    /\ drv.reported

(***************************************************************************)
(* Flow driver: the stream is in order (stream_sn + 1 per call) while      *)
(* every call carries any flow_sn on either of two ports.  The driver      *)
(* keeps, per port, what an observer of the arrivals would note down:      *)
(* last (previous flow_sn, 0 before the first arrival), seen (the flow_sn  *)
(* values admitted), distinct (no value admitted twice), ooo (adjacent     *)
(* pairs whose second flow_sn is smaller than the first, as counted by     *)
(* test_out_of_order), max_gap (largest forward gap) and n_gap (number of  *)
(* forward gaps), a forward gap being flow_sn - (last + 1) > 1.            *)
(***************************************************************************)
FlowPorts == {0, 1}

Observed0 ==
    [arrived |-> FALSE, last |-> 0, seen |-> {}, distinct |-> TRUE,
     ooo |-> 0, max_gap |-> 0, n_gap |-> 0]

Observe(o, flow_sn) ==
    IF ~o.arrived
    THEN [o EXCEPT !.arrived = TRUE, !.last = flow_sn, !.seen = {flow_sn}]
    ELSE LET gap == flow_sn - (o.last + 1)
         IN  [o EXCEPT !.last = flow_sn,
                       !.seen = @ \cup {flow_sn},
                       !.distinct = @ /\ flow_sn \notin o.seen,
                       !.ooo = IF flow_sn < o.last THEN @ + 1 ELSE @,
                       !.max_gap = IF gap > 1 THEN Max(@, gap) ELSE @,
                       !.n_gap = IF gap > 1 THEN @ + 1 ELSE @]

FlowInit ==
    /\ rb = ReorderBuffer(MaxLen)
    /\ burst_len = 0
    /\ flow_burst_len = 0
    /\ flow_burst_count = 0
    /\ drv = [sn |-> 1, calls |-> 0, obs |-> [p \in FlowPorts |-> Observed0],
              port |-> 0, flow_sn |-> 0]

FlowArrive ==
    /\ drv.calls < MaxFlowCalls
    /\ \E flow_sn \in 1..MaxFlowSn : \E port \in FlowPorts :
         /\ Call(drv.sn, flow_sn, port, flow_burst_len, flow_burst_count)
         /\ drv' = [drv EXCEPT !.sn = @ + 1, !.calls = @ + 1,
                               !.obs[port] = Observe(@, flow_sn),
                               !.port = port, !.flow_sn = flow_sn]

FlowNext == FlowArrive

SpecFlow == FlowInit /\ [][FlowNext]_vars

\* C5: on a port that admitted pairwise distinct flow_sn values, reverses
\* equals the number of adjacent pairs of arrivals whose second flow_sn is
\* smaller than the first.
C5_ReversesCountDescents ==
    \A p \in FlowPorts :
        (drv.obs[p].arrived /\ drv.obs[p].distinct) =>
            rb.m_port_seq_map[p].reverses = drv.obs[p].ooo

C5_Witness ==
    \E p \in FlowPorts :
        /\ drv.obs[p].distinct
        /\ Cardinality(drv.obs[p].seen) = 4
        /\ drv.obs[p].ooo = 2
        /\ rb.m_port_seq_map[p].reverses = 2

\* C9: longest_burst equals the largest forward gap observed on the port,
\* 0 if there was none, and it never decreases.
C9_LongestBurstIsMaxGap ==
    /\ [](\A p \in FlowPorts : drv.obs[p].arrived =>
              rb.m_port_seq_map[p].longest_burst = drv.obs[p].max_gap)
    /\ [][\A p \in FlowPorts : rb.m_port_seq_map[p] # NULL =>
              rb'.m_port_seq_map[p].longest_burst >= rb.m_port_seq_map[p].longest_burst]_vars

C9_Witness ==
    \E p \in FlowPorts :
        /\ drv.obs[p].n_gap >= 2
        /\ drv.obs[p].max_gap = 3
        /\ flow_burst_len = 2
        /\ rb.m_port_seq_map[p].longest_burst = 3

(***************************************************************************)
(* Unconstrained driver: any sequence of calls addPacket(sn, sn, port),    *)
(* the calling convention of the tests, with any stream_sn (0 included)    *)
(* on either of two ports and any buffer length.                           *)
(***************************************************************************)
Init ==
    /\ \E len \in Lengths : rb = ReorderBuffer(len)
    /\ burst_len = 0
    /\ flow_burst_len = 0
    /\ flow_burst_count = 0
    /\ drv = [calls |-> 0]

Arrive ==
    /\ drv.calls < MaxCalls
    /\ \E sn \in 0..MaxSn : \E port \in FlowPorts :
         /\ Call(sn, sn, port, flow_burst_len, flow_burst_count)
         /\ drv' = [drv EXCEPT !.calls = @ + 1]

Next == Arrive

Spec == Init /\ [][Next]_vars

\* C8: for each port, after any sequence of arrivals, burst_count <= seq_breaks.
C8_BurstCountLeSeqBreaks ==
    \A p \in Ports : rb.m_port_seq_map[p] # NULL =>
        rb.m_port_seq_map[p].burst_count <= rb.m_port_seq_map[p].seq_breaks

(***************************************************************************)
(* Duplicate driver: up to L in-order arrivals into an empty buffer, then  *)
(* one stream_sn of the window (dup_sn) is admitted k more times, then     *)
(* in-order arrivals resume until the slot of dup_sn has been spilled.     *)
(***************************************************************************)
DupInit ==
    /\ \E len \in Lengths : rb = ReorderBuffer(len)
    /\ burst_len = 0
    /\ flow_burst_len = 0
    /\ flow_burst_count = 0
    /\ \E s \in 1..MaxFirstSn :
         drv = [pc |-> "fill", sn |-> s, n |-> 0, dup_sn |-> 0, k |-> 0, j |-> 0]

DupFill ==
    /\ drv.pc = "fill"
    /\ drv.n < rb.m_buffer_len
    /\ Call(drv.sn, drv.sn, 0, flow_burst_len, flow_burst_count)
    /\ drv' = [drv EXCEPT !.sn = @ + 1, !.n = @ + 1]

DupPick ==
    /\ drv.pc = "fill"
    /\ drv.n >= 1
    /\ \E t \in rb.m_tail_sn..(drv.sn - 1) :
         drv' = [drv EXCEPT !.pc = "copy", !.dup_sn = t]
    /\ UNCHANGED <<rb, burst_len, flow_burst_len, flow_burst_count>>

DupCopy ==
    /\ drv.pc = "copy"
    /\ drv.k < MaxCopies
    /\ Call(drv.dup_sn, drv.dup_sn, 0, flow_burst_len, flow_burst_count)
    /\ drv' = [drv EXCEPT !.k = @ + 1]

DupResume ==
    /\ drv.pc = "copy"
    /\ drv.k >= 1
    /\ drv' = [drv EXCEPT !.pc = "flush"]
    /\ UNCHANGED <<rb, burst_len, flow_burst_len, flow_burst_count>>

DupFlush ==
    /\ drv.pc = "flush"
    /\ drv.j < 2 * rb.m_buffer_len
    /\ Call(drv.sn, drv.sn, 0, flow_burst_len, flow_burst_count)
    /\ drv' = [drv EXCEPT !.sn = @ + 1, !.j = @ + 1]

DupNext == DupFill \/ DupPick \/ DupCopy \/ DupResume \/ DupFlush

SpecDuplicate == DupInit /\ [][DupNext]_vars

DupSlot == (rb.m_tail_idx + (drv.dup_sn - rb.m_tail_sn)) % rb.m_buffer_len

\* C10: after k extra copies of a stream_sn inside the window its slot counter
\* is 1 + k and duplicates() and drops() are unchanged; once the slot has been
\* evicted by a spill duplicates() has risen by exactly k and drops() has not
\* changed (here: from 0, the run has no other duplicate and no loss).
C10_ExtraCopies ==
    drv.pc \in {"copy", "flush"} =>
        IF drv.dup_sn >= rb.m_tail_sn
        THEN /\ rb.m_buffer[DupSlot] = 1 + drv.k
             /\ rb.m_dups = 0
             /\ rb.m_drops = 0
        ELSE /\ rb.m_dups = drv.k
             /\ rb.m_drops = 0

(***************************************************************************)
(* uint64_t ReorderBuffer::stream_length_in_packets()                      *)
(***************************************************************************)
stream_length_in_packets(b) ==
    1 + b.m_largest_received_sn - b.m_smallest_received_sn

(***************************************************************************)
(* The number of non-empty slots the loop of spill clears when sn is       *)
(* admitted to b (0 when addPacket does not reach spill).                  *)
(***************************************************************************)
nonempty_evicted(b, sn) ==
    IF b.m_tail_sn = 0 \/ sn <= highest_possible_sn(b) THEN 0
    ELSE Cardinality({k \in 0..(spill_distance(b, sn).distance - 1) :
                        b.m_buffer[(b.m_tail_idx + k) % b.m_buffer_len] # 0})

(***************************************************************************)
(* Stream driver: any sequence of calls addPacket(sn, sn, 0) with any      *)
(* stream_sn (0 included, repeats included) and any buffer length.  The    *)
(* driver keeps the smallest and largest stream_sn it has offered and the  *)
(* number of non-empty slots evicted so far.                               *)
(***************************************************************************)
StreamInit ==
    /\ \E len \in Lengths : rb = ReorderBuffer(len)
    /\ burst_len = 0
    /\ flow_burst_len = 0
    /\ flow_burst_count = 0
    /\ drv = [calls |-> 0, min_sn |-> 0, max_sn |-> 0, good |-> 0]

StreamArrive ==
    /\ drv.calls < MaxStreamCalls
    /\ \E sn \in 0..MaxStreamSn :
         /\ Call(sn, sn, 0, flow_burst_len, flow_burst_count)
         /\ drv' = [calls |-> drv.calls + 1,
                    min_sn |-> IF drv.calls = 0 THEN sn ELSE Min(sn, drv.min_sn),
                    max_sn |-> IF drv.calls = 0 THEN sn ELSE Max(sn, drv.max_sn),
                    good |-> drv.good + nonempty_evicted(rb, sn)]

StreamNext == StreamArrive

SpecStream == StreamInit /\ [][StreamNext]_vars

\* C11 (as stated): at all times drops + dups + (number of non-empty slots
\* evicted by spill so far) <= largest_received_sn - smallest_received_sn + 1.
C11_AccountedLeLength ==
    rb.m_drops + rb.m_dups + drv.good <= stream_length_in_packets(rb)

\* C11 (amended): at all times drops + (number of non-empty slots evicted by
\* spill so far) <= largest_received_sn - smallest_received_sn + 1.
C11_EvictedLeLength ==
    rb.m_drops + drv.good <= stream_length_in_packets(rb)

C11_Witness ==
    /\ rb.m_drops >= 2
    /\ drv.good >= 2
    /\ rb.m_dups >= 1

\* C12: after any non-empty sequence of addPacket calls,
\* stream_length_in_packets() equals (maximum stream_sn ever offered) -
\* (minimum stream_sn ever offered) + 1, stale arrivals included.
C12_StreamLength ==
    drv.calls > 0 => stream_length_in_packets(rb) = drv.max_sn - drv.min_sn + 1

(***************************************************************************)
(* basic (reorder_test.cpp): a buffer of length L, L arrivals with         *)
(* stream_sn = stride * i for i = 1..L, then L in-order arrivals.  The     *)
(* test itself has L = BasicLen and stride = BasicStride.                  *)
(***************************************************************************)
BasicInit ==
    /\ \E len \in 1..BasicLen : rb = ReorderBuffer(len)
    /\ burst_len = 0
    /\ flow_burst_len = 0
    /\ flow_burst_count = 0
    /\ \E s \in 1..MaxStride :
         drv = [pc |-> "strided", stride |-> s, i |-> 1, sn |-> 0, clean |-> TRUE]

BasicStrided ==
    /\ drv.pc = "strided"
    /\ LET sn == drv.stride * drv.i
       IN  /\ Call(sn, sn, 0, flow_burst_len, flow_burst_count)
           /\ drv' = [drv EXCEPT !.sn = sn, !.i = IF drv.i = rb.m_buffer_len THEN 0 ELSE @ + 1,
                                 !.pc = IF drv.i = rb.m_buffer_len THEN "inorder" ELSE @,
                                 !.clean = @ /\ burst_len' = 0]

BasicInOrder ==
    /\ drv.pc = "inorder"
    /\ drv.i < rb.m_buffer_len
    /\ Call(drv.sn + 1, drv.sn + 1, 0, flow_burst_len, flow_burst_count)
    /\ drv' = [drv EXCEPT !.sn = @ + 1, !.i = @ + 1,
                          !.pc = IF drv.i + 1 = rb.m_buffer_len THEN "done" ELSE @,
                          !.clean = @ /\ burst_len' = 0]

BasicNext == BasicStrided \/ BasicInOrder

SpecBasic == BasicInit /\ [][BasicNext]_vars

BasicDone ==
    /\ drv.pc = "done"
    /\ rb.m_buffer_len = BasicLen
    /\ drv.stride = BasicStride

\* C13 (as stated): scenario S1: with L = 8, after admitting
\* stream_sn = 2, 4, ..., 16 and then 17..24, drops() = 0 and duplicates() = 0.
C13_BasicNoDrops ==
    BasicDone => (rb.m_drops = 0 /\ rb.m_dups = 0)

\* C13 (amended): scenario S1: with L = 8, after admitting
\* stream_sn = 2, 4, ..., 16 and then 17..24, drops() = 7 (the odd stream_sn
\* 3, 5, ..., 15 that were never admitted), duplicates() = 0 and every call
\* has returned 0.
C13_BasicSevenDrops ==
    BasicDone => (rb.m_drops = 7 /\ rb.m_dups = 0 /\ drv.clean)

C13_Witness ==
    /\ BasicDone
    /\ drv.sn = 24
    /\ rb.m_tail_sn = 17
    /\ rb.m_drops = 7

(***************************************************************************)
(* Isolated-loss driver: an in-order stream on one flow in which single    *)
(* stream_sn values are lost, each lost one directly preceded and          *)
(* followed by an admitted one (the pattern of basic and of test 3 of      *)
(* test_drops, with the losses placed anywhere).                           *)
(***************************************************************************)
IsoInit ==
    /\ \E len \in Lengths : rb = ReorderBuffer(len)
    /\ burst_len = 0
    /\ flow_burst_len = 0
    /\ flow_burst_count = 0
    /\ \E s \in 1..MaxFirstSn :
         drv = [sn |-> s, n |-> 0, prev_sent |-> FALSE, lost |-> 0]

IsoSend ==
    /\ drv.n < MaxIsoRun
    /\ Call(drv.sn, drv.sn, 0, flow_burst_len, flow_burst_count)
    /\ drv' = [drv EXCEPT !.sn = @ + 1, !.n = @ + 1, !.prev_sent = TRUE]

IsoLose ==
    /\ drv.n < MaxIsoRun
    /\ drv.prev_sent
    /\ drv' = [drv EXCEPT !.sn = @ + 1, !.prev_sent = FALSE, !.lost = @ + 1]
    /\ UNCHANGED <<rb, burst_len, flow_burst_len, flow_burst_count>>

IsoNext == IsoSend \/ IsoLose

SpecIsolated == IsoInit /\ [][IsoNext]_vars

\* C14 (as stated): in an otherwise in-order stream, isolated single losses
\* never make addPacket return a non-zero stream burst length, whatever L and
\* however many such losses occur.
C14_IsolatedLossSilent ==
    burst_len = 0

\* C14 (amended): in an otherwise in-order stream, isolated single losses
\* never make addPacket return a non-zero stream burst length, for every
\* buffer length L >= 3 and however many such losses occur.
C14_IsolatedLossSilentLen3 ==
    rb.m_buffer_len >= 3 => burst_len = 0

C14_Witness ==
    /\ rb.m_buffer_len >= 3
    /\ drv.lost >= 4
    /\ rb.m_drops >= 3
    /\ drv.prev_sent
    /\ burst_len = 0

(***************************************************************************)
(* Lost-run driver: in-order arrivals on one flow fill the window, then a  *)
(* run of lost consecutive stream_sn values (3 <= lost < L - 1) is         *)
(* skipped, then in-order arrivals go on.  The driver counts the calls     *)
(* made from the first arrival after the run that returned a non-zero      *)
(* stream burst length (nonzero) and keeps the last such value (len).      *)
(***************************************************************************)
RunLengths == 5..MaxRunLen

RunInit ==
    /\ \E len \in RunLengths : rb = ReorderBuffer(len)
    /\ burst_len = 0
    /\ flow_burst_len = 0
    /\ flow_burst_count = 0
    /\ \E s \in 1..MaxFirstSn :
         drv = [pc |-> "fill", sn |-> s, i |-> 0, lost |-> 0, first_lost |-> 0,
                j |-> 0, nonzero |-> 0, len |-> 0]

RunFill ==
    /\ drv.pc = "fill"
    /\ drv.i < rb.m_buffer_len + MaxExtra
    /\ Call(drv.sn, drv.sn, 0, flow_burst_len, flow_burst_count)
    /\ drv' = [drv EXCEPT !.sn = @ + 1, !.i = @ + 1]

RunLose ==
    /\ drv.pc = "fill"
    /\ drv.i >= rb.m_buffer_len
    /\ \E lost \in 3..(rb.m_buffer_len - 2) :
         drv' = [drv EXCEPT !.pc = "after", !.lost = lost, !.first_lost = drv.sn,
                            !.sn = @ + lost]
    /\ UNCHANGED <<rb, burst_len, flow_burst_len, flow_burst_count>>

RunAfter ==
    /\ drv.pc = "after"
    /\ drv.j < 2 * rb.m_buffer_len + MaxExtra
    /\ Call(drv.sn, drv.sn, 0, flow_burst_len, flow_burst_count)
    /\ drv' = [drv EXCEPT !.sn = @ + 1, !.j = @ + 1,
                          !.nonzero = IF burst_len' # 0 THEN @ + 1 ELSE @,
                          !.len = IF burst_len' # 0 THEN burst_len' ELSE @]

RunNext == RunFill \/ RunLose \/ RunAfter

SpecLostRun == RunInit /\ [][RunNext]_vars

\* C15: whenever a run of b consecutive stream_sn values (3 <= b < L - 1) is
\* lost in an otherwise in-order stream with a full window, exactly one
\* addPacket call returns a non-zero stream burst length for that run, and
\* the returned value is b: no call returns a second non-zero value, and once
\* the whole run has left the window one call has returned b.
C15_LostRunReportedOnce ==
    drv.pc = "after" =>
        /\ drv.nonzero <= 1
        /\ drv.nonzero = 1 => drv.len = drv.lost
        /\ rb.m_tail_sn >= drv.first_lost + drv.lost => drv.nonzero = 1

(***************************************************************************)
(* Report driver: in-order stream_sn, any flow_sn on either of two ports.  *)
(* The caller's two output variables start at 0 and, before each call,     *)
(* are either left as the previous call left them (the loops of            *)
(* test_calibrated, test_drops and basic) or reset to 0 (the second loop   *)
(* of test_flowlets).  The driver keeps, per port, the last flow_sn it     *)
(* offered and the number of forward gaps, and from them the report the    *)
(* arrival should get: (gap, number of gaps) for a forward gap, else       *)
(* (0, 0).                                                                 *)
(***************************************************************************)
ReportInit ==
    /\ rb = ReorderBuffer(MaxLen)
    /\ burst_len = 0
    /\ flow_burst_len = 0
    /\ flow_burst_count = 0
    /\ drv = [sn |-> 1, calls |-> 0,
              last |-> [p \in FlowPorts |-> 0],
              gaps |-> [p \in FlowPorts |-> 0],
              exp_len |-> 0, exp_count |-> 0]

ReportArrive ==
    /\ drv.calls < MaxReportCalls
    /\ \E flow_sn \in 1..MaxFlowSn : \E port \in FlowPorts : \E reset \in BOOLEAN :
         LET gap == IF drv.last[port] = 0 THEN 0 ELSE flow_sn - (drv.last[port] + 1)
             forward == gap > 1
         IN  /\ Call(drv.sn, flow_sn, port,
                     IF reset THEN 0 ELSE flow_burst_len,
                     IF reset THEN 0 ELSE flow_burst_count)
             /\ drv' = [sn |-> drv.sn + 1, calls |-> drv.calls + 1,
                        last |-> [drv.last EXCEPT ![port] = flow_sn],
                        gaps |-> [drv.gaps EXCEPT ![port] = IF forward THEN @ + 1 ELSE @],
                        exp_len |-> IF forward THEN gap ELSE 0,
                        exp_count |-> IF forward THEN drv.gaps[port] + 1 ELSE 0]

ReportNext == ReportArrive

SpecReport == ReportInit /\ [][ReportNext]_vars

\* C16: addPacket reports the continuity result of the arrival: for a forward
\* gap (discontinuity > +1) flow_burst_len = discontinuity and
\* flow_burst_count = the port's burst_count after the increment; for every
\* other arrival (first on the port, reversal, duplicate, in-order)
\* flow_burst_len = 0 and flow_burst_count = 0, whatever the caller's output
\* variables held before the call.
C16_ReportsContinuityResult ==
    drv.calls > 0 =>
        /\ flow_burst_len = drv.exp_len
        /\ flow_burst_count = drv.exp_count

(***************************************************************************)
(* ErrorInterval ReorderBuffer::flowInterval(int port)                     *)
(* m_port_seq_map[port] inserts a null pointer for a key that is not in    *)
(* the map; the map of the model holds NULL for such a key and for a key   *)
(* that is absent alike (no code tells the two apart), so the insertion    *)
(* leaves the entry NULL.                                                  *)
(***************************************************************************)
\* mutant: the entry inserted for an unknown port is a value-initialised record
flowInterval_inserts_record(b, port) ==
    LET iv == b.m_port_seq_map[port]
    IN  IF iv # NULL
        THEN [b |-> b, ret |-> iv]
        ELSE [b |-> [b EXCEPT !.m_port_seq_map[port] = ErrorInterval],
              ret |-> [ErrorInterval EXCEPT !.last_known_sn = 0]]
flowInterval(b, port) ==
    LET iv == b.m_port_seq_map[port]
    IN  IF iv # NULL
        THEN [b |-> b, ret |-> iv]
        ELSE [b |-> [b EXCEPT !.m_port_seq_map[port] = NULL],
              ret |-> [ErrorInterval EXCEPT !.last_known_sn = 0]]

(***************************************************************************)
(* Interval driver: arrivals with in-order stream_sn and any flow_sn on    *)
(* either of two ports (output variables zeroed before the call, as in     *)
(* on_read), interleaved with flowInterval(port) queries, the call of      *)
(* flows_timer_cb.  The driver keeps what it did last (op, port, flow_sn), *)
(* the record a query returned (iv), the map as it was before the query    *)
(* (before), and per port the number of arrivals and whether the port was  *)
(* queried before its first arrival.                                       *)
(***************************************************************************)
IvInit ==
    /\ rb = ReorderBuffer(MaxLen)
    /\ burst_len = 0
    /\ flow_burst_len = 0
    /\ flow_burst_count = 0
    /\ drv = [sn |-> 1, steps |-> 0, op |-> "none", port |-> 0, flow_sn |-> 0,
              iv |-> ErrorInterval, before |-> rb.m_port_seq_map,
              arrivals |-> [p \in FlowPorts |-> 0],
              queried_unseen |-> [p \in FlowPorts |-> FALSE]]

IvArrive ==
    /\ drv.steps < MaxIvSteps
    /\ \E flow_sn \in 1..MaxFlowSn : \E port \in FlowPorts :
         /\ Call(drv.sn, flow_sn, port, 0, 0)
         /\ drv' = [drv EXCEPT !.sn = @ + 1, !.steps = @ + 1, !.op = "arrive",
                               !.port = port, !.flow_sn = flow_sn,
                               !.arrivals[port] = @ + 1]

IvQuery ==
    /\ drv.steps < MaxIvSteps
    /\ \E port \in FlowPorts :
         LET r == flowInterval(rb, port)
         IN  /\ rb' = r.b
             /\ drv' = [drv EXCEPT !.steps = @ + 1, !.op = "query", !.port = port,
                                   !.iv = r.ret, !.before = rb.m_port_seq_map,
                                   !.queried_unseen[port] =
                                       @ \/ drv.arrivals[port] = 0]
    /\ UNCHANGED <<burst_len, flow_burst_len, flow_burst_count>>

IvNext == IvArrive \/ IvQuery

SpecInterval == IvInit /\ [][IvNext]_vars

\* C17: flowInterval(port) on a port that never received a datagram returns
\* an all-zero record and changes no port's record, and it does not make the
\* port count as seen: the port's first arrival, also after such queries, is
\* handled as a first arrival (record created with last_known_sn = flow_sn,
\* all counters 0, result (0, 0)).
C17_QueryOfUnseenPort ==
    /\ (drv.op = "query" /\ drv.arrivals[drv.port] = 0) =>
           /\ drv.iv = ErrorInterval
           /\ rb.m_port_seq_map = drv.before
    /\ (drv.op = "arrive" /\ drv.arrivals[drv.port] = 1) =>
           /\ rb.m_port_seq_map[drv.port] =
                  [ErrorInterval EXCEPT !.last_known_sn = drv.flow_sn]
           /\ flow_burst_len = 0
           /\ flow_burst_count = 0

C17_Witness ==
    /\ drv.op = "arrive"
    /\ drv.arrivals[drv.port] = 1
    /\ drv.queried_unseen[drv.port]
    /\ drv.flow_sn = 3
    /\ \E q \in FlowPorts : q # drv.port /\ drv.arrivals[q] = 2
                               /\ rb.m_port_seq_map[q].burst_count = 1

(***************************************************************************)
(* iv2 is nowhere below iv1 in the counters of an ErrorInterval.           *)
(***************************************************************************)
IntervalGrows(iv1, iv2) ==
    /\ iv2.burst_count >= iv1.burst_count
    /\ iv2.longest_burst >= iv1.longest_burst
    /\ iv2.seq_breaks >= iv1.seq_breaks
    /\ iv2.reverses >= iv1.reverses
    /\ iv2.duplicates >= iv1.duplicates

\* C18: across any sequence of addPacket calls, none of these ever decreases:
\* drops(), duplicates(), tail_sn, last_spilled_good_sn, and each port's
\* burst_count, longest_burst, seq_breaks, reverses and duplicates.
C18_CountersNeverDecrease ==
    [][/\ rb'.m_drops >= rb.m_drops
       /\ rb'.m_dups >= rb.m_dups
       /\ rb'.m_tail_sn >= rb.m_tail_sn
       /\ rb'.m_last_spilled_good_sn >= rb.m_last_spilled_good_sn
       /\ \A p \in Ports : rb.m_port_seq_map[p] # NULL =>
              /\ rb'.m_port_seq_map[p] # NULL
              /\ IntervalGrows(rb.m_port_seq_map[p], rb'.m_port_seq_map[p])]_vars

C18_Witness ==
    /\ rb.m_drops >= 1
    /\ rb.m_dups >= 1
    /\ rb.m_last_spilled_good_sn >= 1
    /\ \E p \in FlowPorts : /\ rb.m_port_seq_map[p] # NULL
                            /\ rb.m_port_seq_map[p].burst_count >= 1
                            /\ rb.m_port_seq_map[p].duplicates >= 1

(***************************************************************************)
(* Packet intake (receiver.cpp).  A receive buffer is the sequence of its  *)
(* first four 64-bit words: sentinel, stream_sn, flow_sn, timestamp (the   *)
(* rest of its PACKET_SIZE bytes is never read).  A datagram is the        *)
(* sequence of the 64-bit words it carries, at most four of them here.     *)
(***************************************************************************)
MARKER == 305419896
PACKET_SIZE == 16384
WordBytes == 8
PreambleWords == 4

\* what a buffer from new char[PACKET_SIZE] may hold: anything, here zeros
\* or bytes that read as a well-formed preamble
Uninitialised == {<<0, 0, 0, 0>>, <<MARKER, 1, 1, 0>>}

\* the datagrams a peer may send: a preamble with the MARKER or with another
\* first word, cut after any number of words
Datagrams ==
    {SubSeq(<<s, sn, sn, 0>>, 1, k) :
        s \in {MARKER, 0}, sn \in 1..MaxRxSn, k \in 0..PreambleWords}

\* the buffer after the datagram has been copied to its start
Received(buf, dgram) ==
    [i \in 1..PreambleWords |-> IF i <= Len(dgram) THEN dgram[i] ELSE buf[i]]

(***************************************************************************)
(* UDPReceiver::UDPReceiver: the storage of buffers and the statistics.    *)
(***************************************************************************)
UDPReceiver(port, storage) ==
    [m_port |-> port, m_packet_storage |-> storage,
     m_received_packets |-> 0, m_received_bytes |-> 0]

(***************************************************************************)
(* char *UDPReceiver::getPacket(); fresh is what alloc() returns.          *)
(***************************************************************************)
getPacket(rx, fresh) ==
    IF rx.m_packet_storage = <<>>
    THEN [rx |-> rx, ret |-> fresh]
    ELSE [rx |-> [rx EXCEPT !.m_packet_storage = Tail(@)],
          ret |-> Head(rx.m_packet_storage)]

(***************************************************************************)
(* void UDPReceiver::freePacket(char *packet)                              *)
(***************************************************************************)
freePacket(rx, packet) ==
    [rx EXCEPT !.m_packet_storage = Append(@, packet)]

(***************************************************************************)
(* The test on_read makes on the first word of the buffer.                 *)
(***************************************************************************)
\* mutant: the sentinel is not compared with the MARKER
sentinel_unchecked(sentinel) == TRUE
sentinel_matches(sentinel) == sentinel = MARKER

(***************************************************************************)
(* void UDPReceiver::on_read(req, nread, buf, addr, flags) with buf and    *)
(* buf->base not null (libuv hands back the buffer of my_alloc_cb).        *)
(* base is the content of the buffer, len is buf->len, b the reorder       *)
(* buffer and work the queue of the loop's work requests.  The result      *)
(* also tells whether addPacket was called.                                *)
(***************************************************************************)
\* the statistics update of on_read
on_read_stats(rx, nread) ==
    IF nread > 0
    THEN [rx EXCEPT !.m_received_packets = @ + 1, !.m_received_bytes = @ + nread]
    ELSE rx

\* the test on_read makes on the returned stream burst length
stream_burst_reported(stream_burst_len) == stream_burst_len > 1

\* the two reports of on_read, queued when nread > 0; r is the result of
\* addPacket (all 0 when it was not called), now the value of
\* get_system_time_ns(), and junk what the member timestamp of the
\* DBReportBurst from new holds: on_read never assigns it
on_read_reports(rx, work, nread, r, now, junk) ==
    LET w1 == IF nread > 0 /\ r.flow_burst_len # 0
              THEN Append(work, [report |-> "burst", port |-> rx.m_port,
                                 burst_length |-> r.flow_burst_len,
                                 burst_errors |-> r.flow_burst_count,
                                 bytes_received |-> rx.m_received_bytes,
                                 packets_received |-> rx.m_received_packets,
                                 timestamp |-> junk])
              ELSE work
    IN  IF nread > 0 /\ stream_burst_reported(r.ret)
        THEN Append(w1, [report |-> "sburst", burst_len |-> r.ret,
                         timestamp |-> now])
        ELSE w1

on_read_result(rx, work, nread, called, r, now, junk) ==
    [rx |-> rx, b |-> r.b, work |-> on_read_reports(rx, work, nread, r, now, junk),
     called |-> called, stream_burst_len |-> r.ret,
     burst_len |-> r.flow_burst_len, burst_count |-> r.flow_burst_count]

on_read(rx, b, work, nread, base, len, now, junk) ==
    IF nread # 0 /\ len # 0 /\ sentinel_matches(base[1])
    THEN on_read_result(on_read_stats(freePacket(rx, base), nread), work, nread, TRUE,
                        addPacket(b, base[2], base[3], rx.m_port, 0, 0), now, junk)
    ELSE on_read_result(on_read_stats(freePacket(rx, base), nread), work, nread, FALSE,
                        [b |-> b, ret |-> 0, flow_burst_len |-> 0,
                         flow_burst_count |-> 0], now, junk)

(***************************************************************************)
(* Intake driver: the event loop with one receiver per port and one        *)
(* shared reorder buffer.  For every read libuv calls my_alloc_cb, copies  *)
(* what it received to the start of the buffer, and calls on_read with     *)
(* the number of bytes (-1 for an error, for which nothing is copied).     *)
(* The buffers a receiver allocates at construction all start with the     *)
(* same content.  The driver records the last read: nread, the datagram,   *)
(* and whether addPacket was called, and the set of ports that have        *)
(* received a well-formed datagram (the whole preamble, MARKER first).     *)
(* The wall clock read while the k-th read is processed shows k.           *)
(***************************************************************************)
get_system_time_ns == drv.reads + 1

\* what a member that was never assigned may hold when it is read
Indeterminate(now) == {0, now}

WellFormed(dgram) == Len(dgram) = PreambleWords /\ dgram[1] = MARKER

IntakeInit ==
    /\ rb = ReorderBuffer(IntakeLen)
    /\ burst_len = 0
    /\ flow_burst_len = 0
    /\ flow_burst_count = 0
    /\ \E st \in [FlowPorts -> Uninitialised] :
         drv = [pc |-> "alloc", port |-> 0, buf |-> <<>>, reads |-> 0,
                rx |-> [p \in FlowPorts |->
                          UDPReceiver(p, [i \in 1..PoolSize |-> st[p]])],
                work |-> <<>>, nread |-> 0, dgram |-> <<>>, called |-> FALSE,
                valid |-> {}]

my_alloc_cb ==
    /\ drv.pc = "alloc"
    /\ drv.reads < MaxReads
    /\ \E port \in FlowPorts : \E fresh \in Uninitialised :
         LET g == getPacket(drv.rx[port], fresh)
         IN  drv' = [drv EXCEPT !.pc = "read", !.port = port, !.buf = g.ret,
                                !.rx[port] = g.rx]
    /\ UNCHANGED <<rb, burst_len, flow_burst_len, flow_burst_count>>

Deliver(nread, dgram, r) ==
    /\ rb' = r.b
    /\ burst_len' = r.stream_burst_len
    /\ flow_burst_len' = r.burst_len
    /\ flow_burst_count' = r.burst_count
    /\ drv' = [drv EXCEPT !.pc = "alloc", !.buf = <<>>, !.reads = @ + 1,
                          !.rx[drv.port] = r.rx, !.work = r.work,
                          !.nread = nread, !.dgram = dgram,
                          !.called = r.called,
                          !.valid = IF WellFormed(dgram) THEN @ \cup {drv.port}
                                    ELSE @]

Read(nread, dgram) ==
    \E junk \in Indeterminate(get_system_time_ns) :
        Deliver(nread, dgram,
                on_read(drv.rx[drv.port], rb, drv.work, nread,
                        Received(drv.buf, dgram), PACKET_SIZE,
                        get_system_time_ns, junk))

ReadDatagram ==
    /\ drv.pc = "read"
    /\ \E dgram \in Datagrams : Read(WordBytes * Len(dgram), dgram)

ReadError ==
    /\ drv.pc = "read"
    /\ Read(-1, <<>>)

IntakeNext == my_alloc_cb \/ ReadDatagram \/ ReadError

SpecIntake == IntakeInit /\ [][IntakeNext]_vars

\* C19: a datagram whose first 64-bit field is not the MARKER is rejected:
\* the read that delivers it does not call addPacket, leaves the reorder
\* buffer (drops, dups and every port's continuity record included)
\* unchanged and enqueues no burst event.
C19_WrongMarkerRejected ==
    [][(drv.pc = "read" /\ Len(drv'.dgram) >= 1 /\ drv'.dgram[1] # MARKER) =>
          /\ ~drv'.called
          /\ rb' = rb
          /\ drv'.work = drv.work]_vars

C19_Witness ==
    /\ drv.pc = "alloc"
    /\ drv.nread = WordBytes * PreambleWords
    /\ drv.dgram[1] # MARKER
    /\ ~drv.called
    /\ rb.m_tail_sn # 0
    /\ rb.m_port_seq_map[drv.port] # NULL
    /\ drv.rx[drv.port].m_received_packets = 2

\* C20: a datagram shorter than the 32-byte preamble, or a read that reports
\* an error (nread < 0), is dropped: the read does not call addPacket and
\* leaves the reorder buffer unchanged, whatever the receive buffer holds.
C20_ShortOrFailedReadDropped ==
    [][(drv.pc = "read" /\ drv'.nread < WordBytes * PreambleWords) =>
          /\ ~drv'.called
          /\ rb' = rb]_vars

(***************************************************************************)
(* The reports one step appends to the work queue, and how many of them    *)
(* are of one kind.                                                        *)
(***************************************************************************)
NewReports == SubSeq(drv'.work, Len(drv.work) + 1, Len(drv'.work))

NewOfKind(kind) ==
    Cardinality({i \in 1..Len(NewReports) : NewReports[i].report = kind})

\* C21: for each valid datagram the intake enqueues a flow-burst event if and
\* only if addPacket reported flow_burst_len # 0, and a stream-burst event if
\* and only if addPacket returned a stream burst length > 1, at most one of
\* each kind; a read that delivers anything else (a datagram that is to be
\* rejected, or an error) enqueues nothing.
C21_EventsFollowAddPacket ==
    [][drv.pc = "read" =>
          IF WellFormed(drv'.dgram)
          THEN /\ NewOfKind("burst") = (IF flow_burst_len' # 0 THEN 1 ELSE 0)
               /\ NewOfKind("sburst") = (IF burst_len' > 1 THEN 1 ELSE 0)
               /\ Len(NewReports) = NewOfKind("burst") + NewOfKind("sburst")
          ELSE drv'.work = drv.work]_vars

\* C22: every burst event record handed to the sink, flow burst as well as
\* stream burst, carries the wall-clock time at which its datagram was
\* processed.
C22_ReportsCarryTimestamp ==
    [][drv.pc = "read" =>
          \A i \in 1..Len(NewReports) :
              NewReports[i].timestamp = get_system_time_ns]_vars

(***************************************************************************)
(* void flows_timer_cb(uv_timer_t *handle): the loop over the flow_count   *)
(* ports from starting_port; i is the loop variable.  Every port whose     *)
(* interval has last_known_sn # 0 gets a DBReportFlowStats queued.         *)
(***************************************************************************)
RECURSIVE flows_timer_cb(_, _, _, _, _, _)
flows_timer_cb(b, work, starting_port, flow_count, i, now) ==
    IF i >= flow_count THEN work
    ELSE LET port == starting_port + i
             iv == flowInterval(b, port).ret
             w == IF iv.last_known_sn # 0
                  THEN Append(work, [report |-> "flows", port |-> port,
                                     timestamp |-> now,
                                     seq_breaks |-> iv.seq_breaks,
                                     longest_burst |-> iv.longest_burst,
                                     duplicates |-> iv.duplicates,
                                     reverses |-> iv.reverses,
                                     burst_count |-> iv.burst_count])
                  ELSE work
         IN  flows_timer_cb(b, w, starting_port, flow_count, i + 1, now)

(***************************************************************************)
(* Sampler driver: the intake driver together with the flows timer, which  *)
(* may fire between two reads.                                             *)
(***************************************************************************)
SamplerInit ==
    /\ rb = ReorderBuffer(IntakeLen)
    /\ burst_len = 0
    /\ flow_burst_len = 0
    /\ flow_burst_count = 0
    /\ \E st \in [FlowPorts -> Uninitialised] :
         drv = [pc |-> "alloc", port |-> 0, buf |-> <<>>, reads |-> 0,
                rx |-> [p \in FlowPorts |->
                          UDPReceiver(p, [i \in 1..PoolSize |-> st[p]])],
                work |-> <<>>, nread |-> 0, dgram |-> <<>>, called |-> FALSE,
                valid |-> {}, ticks |-> 0]

FlowsTick ==
    /\ drv.pc = "alloc"
    /\ drv.ticks < MaxTicks
    /\ drv' = [drv EXCEPT !.ticks = @ + 1,
                          !.work = flows_timer_cb(rb, @, 0, Cardinality(FlowPorts), 0,
                                                  get_system_time_ns)]
    /\ UNCHANGED <<rb, burst_len, flow_burst_len, flow_burst_count>>

SamplerNext == my_alloc_cb \/ ReadDatagram \/ ReadError \/ FlowsTick

SpecSampler == SamplerInit /\ [][SamplerNext]_vars

\* C23: on every flows tick, for each configured port exactly one flow record
\* is emitted if the port has ever received a valid datagram and none if it
\* has not; the record carries that port's current burst_count, reverses,
\* duplicates, longest_burst and seq_breaks.
C23_FlowRecordPerSeenPort ==
    [][drv'.ticks # drv.ticks =>
          /\ \A p \in FlowPorts :
                 Cardinality({i \in 1..Len(NewReports) : NewReports[i].port = p})
                     = (IF p \in drv.valid THEN 1 ELSE 0)
          /\ \A i \in 1..Len(NewReports) :
                 LET r == NewReports[i]
                     iv == rb.m_port_seq_map[r.port]
                 IN  /\ r.report = "flows"
                     /\ iv # NULL
                     /\ r.burst_count = iv.burst_count
                     /\ r.reverses = iv.reverses
                     /\ r.duplicates = iv.duplicates
                     /\ r.longest_burst = iv.longest_burst
                     /\ r.seq_breaks = iv.seq_breaks]_vars

\* ---------------------------------------------------------------------------
\* The sender's round-robin loop (sender.cpp main).  drv holds main's locals:
\* the number of sockets, fd_idx, sequence_number, flow_sn, the counter
\* s_bytes_sent, the datagram last handed to send() and, per flowlet, the
\* flow_sn of the first datagram that was emitted on it (0: none yet).
\* ---------------------------------------------------------------------------
Flowlets == 1..MaxFlowlets

payload_length == 8100

Preamble(sequence_number, flow_sn, frame_start_time) ==
    <<MARKER, sequence_number, flow_sn, frame_start_time>>

next_fd_idx(fd_idx, size) == IF fd_idx + 1 >= size THEN 0 ELSE fd_idx + 1

next_flow_sn(fd_idx, size, flow_sn) ==
    IF fd_idx + 1 >= size THEN flow_sn + 1 ELSE flow_sn

SenderInit ==
    /\ rb = ReorderBuffer(1)
    /\ burst_len = 0
    /\ flow_burst_len = 0
    /\ flow_burst_count = 0
    /\ \E n \in Flowlets :
         drv = [flowlet_count   |-> n,
                fd_idx          |-> 0,
                sequence_number |-> 1,
                flow_sn         |-> 1,
                s_bytes_sent    |-> 0,
                idx             |-> 0,
                payload         |-> <<>>,
                first           |-> [f \in 0..(n - 1) |-> 0]]

SendTo(len) ==
    LET idx  == drv.fd_idx
        fsn  == next_flow_sn(drv.fd_idx, drv.flowlet_count, drv.flow_sn)
    IN  /\ drv.sequence_number <= MaxSends
        /\ drv' = [drv EXCEPT
                     !.idx = idx,
                     !.fd_idx = next_fd_idx(drv.fd_idx, drv.flowlet_count),
                     !.flow_sn = fsn,
                     !.payload = Preamble(drv.sequence_number, fsn, 0),
                     !.sequence_number = @ + 1,
                     !.s_bytes_sent = @ + len,
                     !.first = IF len # -1 /\ @[idx] = 0
                               THEN [@ EXCEPT ![idx] = fsn] ELSE @]
        /\ UNCHANGED <<rb, burst_len, flow_burst_len, flow_burst_count>>

SendDatagram == SendTo(payload_length)

SendFails == SendTo(-1)

SenderNext == SendDatagram \/ SendFails

SpecSender == SenderInit /\ [][SenderNext]_vars

\* C24: on every flowlet, the last one of the round-robin and a single
\* flowlet included, the first datagram emitted carries flow_sn = 1.
C24_FirstFlowSnIsOne ==
    \A f \in DOMAIN drv.first : drv.first[f] # 0 => drv.first[f] = 1

\* ---------------------------------------------------------------------------
\* Window driver: arbitrary arrivals on one flow, with a record of what each
\* call did to the ring.  drv holds the number of calls, the stream_sn of the
\* last call, the branch addPacket took for it, the slot it incremented (-1:
\* none), the stream_sn values offered so far and how many calls repeated one,
\* per slot the stream_sn values that marked it since it was last evicted,
\* and the longest run of counted empty slots that the last spill closed by
\* evicting a non-empty slot.
\* ---------------------------------------------------------------------------
WinLens == 1..MaxWinLen

\* the branch of addPacket an arrival takes
path_of(b, sn) ==
    IF b.m_tail_sn = 0 THEN "first"
    ELSE IF too_old(sn, lowest_possible_sn(b)) THEN "stale"
    ELSE IF sn <= highest_possible_sn(b) THEN "mark"
    ELSE "spill"

\* the slots the loop of spill walks
evicted_slots(b, sn) ==
    {(b.m_tail_idx + k) % b.m_buffer_len :
        k \in 0..(spill_distance(b, sn).distance - 1)}

\* the slot spill increments for the arrival once its loop is done
spill_slot(b, sn) ==
    LET st == spill_loop(spill_entry(b, sn), spill_distance(b, sn).distance)
    IN  IF spill_distance(b, sn).patchup_burst # 0 THEN st.b.m_tail_idx
        ELSE idx_for(st.b, sn)

\* the slot addPacket increments for the arrival
slot_of(b, sn) ==
    CASE path_of(b, sn) = "first" -> b.m_tail_idx
      [] path_of(b, sn) = "stale" -> -1
      [] path_of(b, sn) = "mark"  -> idx_for(b, sn)
      [] path_of(b, sn) = "spill" -> spill_slot(b, sn)

\* current_burst at the iterations of spill's loop that evict a non-empty slot
closed_runs(b, sn) ==
    {spill_loop(spill_entry(b, sn), k).current_burst :
        k \in {j \in 0..(spill_distance(b, sn).distance - 1) :
                 LET st == spill_loop(spill_entry(b, sn), j)
                 IN  st.b.m_buffer[st.b.m_tail_idx] # 0}}

SetMax(S) == IF S = {} THEN 0 ELSE CHOOSE x \in S : \A y \in S : y <= x

\* the logical sequence number slot i stands for
slot_sn(b, i) == b.m_tail_sn + ((i - b.m_tail_idx) % b.m_buffer_len)

WinInit ==
    /\ \E len \in WinLens :
         /\ rb = ReorderBuffer(len)
         /\ drv = [calls |-> 0, sn |-> 0, path |-> "none", slot |-> -1,
                   offered |-> {}, repeats |-> 0,
                   by |-> [i \in 0..(len - 1) |-> {}], closed |-> 0]
    /\ burst_len = 0
    /\ flow_burst_len = 0
    /\ flow_burst_count = 0

Track(sn, path, slot, gone) ==
    drv' = [calls |-> drv.calls + 1, sn |-> sn, path |-> path, slot |-> slot,
            offered |-> drv.offered \cup {sn},
            repeats |-> drv.repeats + (IF sn \in drv.offered THEN 1 ELSE 0),
            by |-> [i \in DOMAIN drv.by |->
                      (IF i \in gone THEN {} ELSE drv.by[i])
                        \cup (IF i = slot THEN {sn} ELSE {})],
            closed |-> IF path = "spill" THEN SetMax(closed_runs(rb, sn)) ELSE 0]

WinArrive ==
    /\ drv.calls < MaxWinCalls
    /\ \E sn \in 0..MaxWinSn :
         /\ Call(sn, sn, 0, flow_burst_len, flow_burst_count)
         /\ Track(sn, path_of(rb, sn), slot_of(rb, sn),
                  IF path_of(rb, sn) = "spill" THEN evicted_slots(rb, sn) ELSE {})

WinNext == WinArrive

SpecWindow == WinInit /\ [][WinNext]_vars

\* C25: after a spill triggered by an arrival above highest_possible_sn the
\* arrival lies in the advanced window, tail_sn <= stream_sn <= tail_sn + L - 1,
\* and the slot incremented for it is the slot standing for stream_sn.
C25_SpillMakesRoom ==
    drv.path = "spill" =>
        /\ rb.m_tail_sn <= drv.sn
        /\ drv.sn <= rb.m_tail_sn + rb.m_buffer_len - 1
        /\ slot_sn(rb, drv.slot) = drv.sn

\* the number of slots from tail_idx to head_idx inclusive, going forward
\* around the ring
slots_tail_to_head(b) == ((b.m_head_idx - b.m_tail_idx) % b.m_buffer_len) + 1

\* C26: after every admission occupancy() <= L; occupancy() is 0 iff
\* tail_sn = 0; otherwise occupancy() is the number of slots from tail_idx to
\* head_idx inclusive going forward around the ring, also when the window has
\* wrapped (head_idx < tail_idx).
C26_OccupancyCountsWindow ==
    drv.calls > 0 =>
        /\ occupancy(rb) <= rb.m_buffer_len
        /\ (occupancy(rb) = 0) <=> (rb.m_tail_sn = 0)
        /\ rb.m_tail_sn # 0 => occupancy(rb) = slots_tail_to_head(rb)

\* C27: after every admission every slot with a counter > 0 lies in the live
\* window: its logical sequence number tail_sn + ((i - tail_idx) mod L) is in
\* [tail_sn, tail_sn + occupancy()), and it is the stream_sn of the
\* arrival(s) that marked the slot.
C27_MarkedSlotsAreLive ==
    \A i \in DOMAIN rb.m_buffer : rb.m_buffer[i] > 0 =>
        /\ slot_sn(rb, i) >= rb.m_tail_sn
        /\ slot_sn(rb, i) < rb.m_tail_sn + occupancy(rb)
        /\ drv.by[i] = {slot_sn(rb, i)}

\* the window holds L live slots: the head slot is L - 1 positions past the
\* tail slot, wrapped or not
window_full(b) ==
    /\ b.m_tail_sn # 0
    /\ (b.m_head_idx - b.m_tail_idx) % b.m_buffer_len = b.m_buffer_len - 1

\* C28: when the window holds L live slots, every arrival with
\* stream_sn < tail_sn is classified stale: no slot counter is incremented
\* and addPacket returns 0.
C28_FullWindowRejectsOld ==
    [][(window_full(rb) /\ drv'.calls = drv.calls + 1 /\ drv'.sn < rb.m_tail_sn)
          => /\ drv'.path = "stale"
             /\ rb'.m_buffer = rb.m_buffer
             /\ burst_len' = 0]_vars

\* C29: duplicates() only counts repeated deliveries: duplicates() never
\* exceeds the number of addPacket calls whose stream_sn had already been
\* offered by an earlier call, so a stream of pairwise distinct stream_sn
\* values keeps duplicates() = 0.
C29_DuplicatesAreRepeats == rb.m_dups <= drv.repeats

\* C30: within a single spill, when a non-empty slot is evicted right after
\* a run of n >= 1 counted empty slots, that closed run is folded into
\* largest_burst, so the spill returns at least n.
C30_ClosedRunIsReturned ==
    (drv.path = "spill" /\ drv.closed >= 1) => burst_len >= drv.closed

\* the empty slots of the ring, and the copies beyond the first that its
\* non-empty slots hold
empty_slots(b) == Cardinality({i \in DOMAIN b.m_buffer : b.m_buffer[i] = 0})

RECURSIVE extra_copies(_, _)
extra_copies(b, n) ==
    IF n = 0 THEN 0
    ELSE extra_copies(b, n - 1)
           + (IF b.m_buffer[n - 1] # 0 THEN b.m_buffer[n - 1] - 1 ELSE 0)

\* C31: a patch-up spill (stream_sn - highest_possible_sn >= L) raises drops
\* by stream_sn - hsn - 1 plus the number of empty slots of the window, raises
\* dups by the sum of counter - 1 over the non-empty slots, and leaves
\* tail_sn = stream_sn, head_idx = tail_idx, buffer[tail_idx] = 1 and every
\* other slot 0.
C31_PatchupSpill ==
    [][(/\ drv'.calls = drv.calls + 1
        /\ rb.m_tail_sn # 0
        /\ drv'.sn - highest_possible_sn(rb) >= rb.m_buffer_len)
          => /\ rb'.m_drops = rb.m_drops + (drv'.sn - highest_possible_sn(rb) - 1)
                                + empty_slots(rb)
             /\ rb'.m_dups = rb.m_dups + extra_copies(rb, rb.m_buffer_len)
             /\ rb'.m_tail_sn = drv'.sn
             /\ rb'.m_head_idx = rb'.m_tail_idx
             /\ rb'.m_buffer =
                  [i \in DOMAIN rb.m_buffer |-> IF i = rb'.m_tail_idx THEN 1 ELSE 0]]_vars

C31_Witness ==
    /\ drv.path = "spill"
    /\ rb.m_buffer_len >= 2
    /\ rb.m_tail_sn = drv.sn
    /\ rb.m_dups >= 1
    /\ rb.m_drops >= rb.m_buffer_len

\* C32: a stale arrival (stream_sn < lowest_possible_sn) returns 0 and leaves
\* buffer[], tail_idx, head_idx, tail_sn, last_spilled_good_sn, drops and dups
\* unchanged; only largest/smallest_received_sn and the port's continuity
\* record are updated.
C32_StaleFrame ==
    [][(/\ drv'.calls = drv.calls + 1
        /\ rb.m_tail_sn # 0
        /\ drv'.sn < lowest_possible_sn(rb))
          => /\ burst_len' = 0
             /\ rb' = [rb EXCEPT
                         !.m_largest_received_sn = rb'.m_largest_received_sn,
                         !.m_smallest_received_sn = rb'.m_smallest_received_sn,
                         !.m_port_seq_map[0] = rb'.m_port_seq_map[0]]
             /\ rb'.m_largest_received_sn = Max(drv'.sn, rb.m_largest_received_sn)
             /\ rb'.m_port_seq_map[0].last_known_sn = drv'.sn]_vars

C32_Witness ==
    /\ drv.path = "stale"
    /\ rb.m_buffer_len >= 2
    /\ rb.m_drops >= 1
    /\ rb.m_port_seq_map[0].reverses >= 1

\* C33: with an empty buffer (tail_sn = 0) the first arrival with
\* stream_sn > 0 sets tail_sn = stream_sn, head_idx = tail_idx and that
\* slot's counter to 1, returns 0, and leaves drops and dups at 0; occupancy
\* becomes 1.
C33_FirstInsert ==
    [][(/\ drv'.calls = drv.calls + 1
        /\ rb.m_tail_sn = 0
        /\ drv'.sn > 0)
          => /\ rb'.m_tail_sn = drv'.sn
             /\ rb'.m_tail_idx = rb.m_tail_idx
             /\ rb'.m_head_idx = rb'.m_tail_idx
             /\ rb'.m_buffer[rb'.m_tail_idx] = 1
             /\ burst_len' = 0
             /\ rb'.m_drops = 0
             /\ rb'.m_dups = 0
             /\ occupancy(rb') = 1]_vars

C33_Witness ==
    /\ drv.path = "first"
    /\ drv.sn > 0
    /\ drv.calls = 2
    /\ rb.m_tail_sn = drv.sn
    /\ rb.m_buffer_len >= 2

\* C34: an in-window arrival (lowest_possible_sn <= stream_sn <=
\* highest_possible_sn) increments exactly the slot at index
\* (tail_idx + (stream_sn - tail_sn)) mod L, the non-negative modulus also
\* for stream_sn < tail_sn and for L not a power of two; no other slot,
\* tail_idx, tail_sn, drops or dups changes, and head_idx moves to that index
\* only if stream_sn > tail_sn + occupancy - 1.
C34_InWindowSlot ==
    [][(/\ drv'.calls = drv.calls + 1
        /\ rb.m_tail_sn # 0
        /\ lowest_possible_sn(rb) <= drv'.sn
        /\ drv'.sn <= highest_possible_sn(rb))
          => LET idx == (rb.m_tail_idx + (drv'.sn - rb.m_tail_sn)) % rb.m_buffer_len
             IN  /\ rb'.m_buffer = [rb.m_buffer EXCEPT ![idx] = @ + 1]
                 /\ rb'.m_tail_idx = rb.m_tail_idx
                 /\ rb'.m_tail_sn = rb.m_tail_sn
                 /\ rb'.m_drops = rb.m_drops
                 /\ rb'.m_dups = rb.m_dups
                 /\ rb'.m_head_idx =
                      IF drv'.sn > rb.m_tail_sn + occupancy(rb) - 1
                      THEN idx ELSE rb.m_head_idx]_vars

RevInit ==
    /\ rb = ReorderBuffer(MaxRevLen)
    /\ burst_len = 0
    /\ flow_burst_len = 0
    /\ flow_burst_count = 0
    /\ drv = [pc |-> "climb", sn |-> 0, h |-> 0, x |-> 0]

RevClimb ==
    /\ drv.pc = "climb"
    /\ drv.sn < MaxHigh
    /\ Call(drv.sn + 1, drv.sn + 1, 0, flow_burst_len, flow_burst_count)
    /\ drv' = [drv EXCEPT !.sn = @ + 1]

RevBack ==
    /\ drv.pc = "climb"
    /\ \E x \in 1..(drv.sn - 2) :
         /\ Call(x, x, 0, flow_burst_len, flow_burst_count)
         /\ drv' = [pc |-> "resume", sn |-> x, h |-> drv.sn, x |-> x]

RevResume ==
    /\ drv.pc = "resume"
    /\ drv.sn <= drv.h
    /\ Call(drv.sn + 1, drv.sn + 1, 0, flow_burst_len, flow_burst_count)
    /\ drv' = [drv EXCEPT !.sn = @ + 1]

RevNext == RevClimb \/ RevBack \/ RevResume

SpecReversal == RevInit /\ [][RevNext]_vars

\* C36: after a reversal on a port from high-water mark H back to a flow_sn
\* x < H - 1, followed by in-order traffic x + 1, x + 2, ..., every
\* subsequent arrival is registered as a further forward gap (burst_count
\* increases on each) until the flow_sn passes H again.
C36_GapsUntilHighWater ==
    [][(drv.pc = "resume" /\ drv'.sn <= drv.h)
          => rb'.m_port_seq_map[0].burst_count
               = rb.m_port_seq_map[0].burst_count + 1]_vars

\* C36 (amended): the reversal arrival x < H - 1 itself counts one reversal
\* and one continuity break and no burst; every in-order arrival after it,
\* up to and past H, only moves last_known_sn: burst_count, longest_burst,
\* reverses, duplicates and seq_breaks stay as they are.
C36_NoGapsAfterReversal ==
    [][/\ (drv.pc = "climb" /\ drv'.pc = "resume")
            => rb'.m_port_seq_map[0] =
                 [rb.m_port_seq_map[0] EXCEPT !.last_known_sn = drv'.x,
                                              !.reverses = @ + 1,
                                              !.seq_breaks = @ + 1]
       /\ drv.pc = "resume"
            => rb'.m_port_seq_map[0] =
                 [rb.m_port_seq_map[0] EXCEPT !.last_known_sn = drv'.sn]]_vars

C36_Witness ==
    /\ drv.pc = "resume"
    /\ drv.sn = drv.h + 1
    /\ drv.h - drv.x >= 3
    /\ rb.m_port_seq_map[0].burst_count = 0
    /\ rb.m_port_seq_map[0].reverses = 1
    /\ rb.m_port_seq_map[0].seq_breaks = 1

\* ---------------------------------------------------------------------------
\* Far driver: a few arrivals with small stream_sn on one flow, then one
\* arrival with stream_sn = 2^32 + lo, after which the run ends.  A value
\* 2^32 + lo is written Far(lo).  spill stores stream_sn - hsn in an int:
\* for stream_sn = 2^32 + lo the stored value is lo - hsn.  The build decides
\* whether assert aborts the process (drv.ndebug).  drv.distance is the value
\* of spill's int distance after its initialisation, drv.branch the branch of
\* spill's first test ("assert" when the assertion failed first), and
\* drv.beyond tells whether stream_sn - hsn >= L.
\* ---------------------------------------------------------------------------
Far(lo) == [two32 |-> 1, plus |-> lo]

Two32Mod(len) == Sq(65536 % len, len)

\* int distance = sn - highest_possible_sn() for sn = 2^32 + lo
far_distance(b, lo) == lo - highest_possible_sn(b)

\* idx_for(sn) for sn = 2^32 + lo: the uint64_t sum does not wrap
far_idx_for(b, lo) ==
    (Two32Mod(b.m_buffer_len) + b.m_tail_idx + lo - b.m_tail_sn) % b.m_buffer_len

\* mark(sn) for sn = 2^32 + lo, which is above largest_sn
far_mark(b, lo) ==
    [b EXCEPT !.m_buffer[far_idx_for(b, lo)] = (@ + 1) % 256,
              !.m_head_idx = far_idx_for(b, lo)]

\* the head of spill for a given value of its int distance
far_spill_distance(b, distance) ==
    IF distance >= b.m_buffer_len
    THEN [patchup_burst |-> distance - 1, distance |-> b.m_buffer_len]
    ELSE [patchup_burst |-> 0, distance |-> Min(occupancy(b), distance)]

\* the rest of spill(sn) for sn = 2^32 + lo, once the assertion is passed
far_spill_tail(st, patchup_burst, lo) ==
    [b |-> IF patchup_burst # 0
           THEN [st.b EXCEPT !.m_tail_sn = Far(lo),
                             !.m_head_idx = st.b.m_tail_idx,
                             !.m_buffer[st.b.m_tail_idx] = (@ + 1) % 256]
           ELSE far_mark(st.b, lo),
     ret |-> IF st.current_burst # 0
             THEN Max(st.largest_burst, st.current_burst + patchup_burst)
             ELSE Max(st.largest_burst, patchup_burst)]

far_spill(b, d, lo) ==
    far_spill_tail(spill_loop([b |-> [b EXCEPT !.m_drops = @ + d.patchup_burst],
                               current_burst |-> 0, largest_burst |-> 0],
                              Max(d.distance, 0)),
                   d.patchup_burst, lo)

\* addPacket up to the call of spill: the received range and the flow check
far_entry(b, lo, flow_sn, cnt) ==
    check_for_burst_error([b EXCEPT !.m_largest_received_sn = Far(lo)],
                          flow_sn, 0, cnt)

FarInit ==
    /\ \E len \in 1..MaxFarLen : rb = ReorderBuffer(len)
    /\ burst_len = 0
    /\ flow_burst_len = 0
    /\ flow_burst_count = 0
    /\ \E nd \in BOOLEAN :
         drv = [pc |-> "near", calls |-> 0, ndebug |-> nd, distance |-> 0,
                branch |-> "none", beyond |-> FALSE]

NearArrive ==
    /\ drv.pc = "near"
    /\ drv.calls < MaxNearCalls
    /\ \E sn \in 1..MaxNearSn :
         /\ Call(sn, drv.calls + 1, 0, flow_burst_len, flow_burst_count)
         /\ drv' = [drv EXCEPT
                      !.calls = @ + 1,
                      !.distance = IF path_of(rb, sn) = "spill"
                                   THEN sn - highest_possible_sn(rb) ELSE 0,
                      !.branch = IF path_of(rb, sn) # "spill" THEN "none"
                                 ELSE IF sn - highest_possible_sn(rb) >= rb.m_buffer_len
                                 THEN "patchup" ELSE "loop",
                      !.beyond = /\ path_of(rb, sn) = "spill"
                                 /\ sn - highest_possible_sn(rb) >= rb.m_buffer_len]

FarOutcome(c, distance, lo) ==
    IF distance <= 0 /\ ~drv.ndebug
    THEN /\ rb' = c.b
         /\ UNCHANGED burst_len
         /\ drv' = [drv EXCEPT !.pc = "abort", !.calls = @ + 1,
                               !.distance = distance, !.branch = "assert",
                               !.beyond = TRUE]
    ELSE /\ rb' = far_spill(c.b, far_spill_distance(c.b, distance), lo).b
         /\ burst_len' = Max(0, far_spill(c.b, far_spill_distance(c.b, distance), lo).ret)
         /\ drv' = [drv EXCEPT !.pc = "done", !.calls = @ + 1,
                               !.distance = distance,
                               !.branch = IF distance >= rb.m_buffer_len
                                          THEN "patchup" ELSE "loop",
                               !.beyond = TRUE]

FarArrive ==
    /\ drv.pc = "near"
    /\ rb.m_tail_sn # 0
    /\ \E lo \in 0..MaxFarLo :
         /\ FarOutcome(far_entry(rb, lo, drv.calls + 1, flow_burst_count),
                       far_distance(rb, lo), lo)
         /\ flow_burst_len' = far_entry(rb, lo, drv.calls + 1, flow_burst_count).ret
         /\ flow_burst_count' = far_entry(rb, lo, drv.calls + 1, flow_burst_count).burst_count

FarNext == NearArrive \/ FarArrive

SpecFar == FarInit /\ [][FarNext]_vars

\* C37: for every arrival with stream_sn > highest_possible_sn the spill
\* distance stream_sn - hsn is handled without truncation: it is strictly
\* positive (assert(distance > 0) never fails) and every distance >= L takes
\* the patch-up branch, also when stream_sn - hsn exceeds the range of a
\* signed 32-bit integer.
C37_DistanceNotTruncated ==
    drv.branch # "none" =>
        /\ drv.distance > 0
        /\ drv.branch # "assert"
        /\ drv.beyond => drv.branch = "patchup"

\* C38: in every state reachable by addPacket calls 0 <= tail_idx < L and
\* 0 <= head_idx < L, and the index computed for an in-window or post-spill
\* mark is in [0, L): no slot outside buffer[0..L) is touched.
C38_IndicesInRange ==
    /\ rb.m_tail_idx \in 0..(rb.m_buffer_len - 1)
    /\ rb.m_head_idx \in 0..(rb.m_buffer_len - 1)
    /\ drv.path \in {"first", "mark", "spill"}
          => drv.slot \in 0..(rb.m_buffer_len - 1)
    /\ DOMAIN rb.m_buffer = 0..(rb.m_buffer_len - 1)

C38_Witness ==
    /\ drv.path = "mark"
    /\ drv.sn < rb.m_tail_sn
    /\ rb.m_buffer_len = 3
    /\ rb.m_tail_idx = 2
    /\ rb.m_head_idx < rb.m_tail_idx
    /\ rb.m_drops >= 1

\* ---------------------------------------------------------------------------
\* Reactor driver: uv_run on the one loop that owns the receivers and both
\* timers.  A read callback is followed step by step: my_alloc_cb, then
\* on_read up to the continuity check inside addPacket (drv.pc = "admit"),
\* then the rest of on_read.  The loop starts a timer callback only when no
\* other callback is running.  drv.committed is the reorder buffer as the
\* last completed callback left it, drv.cur the read in progress.
\* ---------------------------------------------------------------------------
\* addPacket up to the return of check_for_burst_error
addPacket_tracked(b, sn, flow_sn, port) ==
    check_for_burst_error([b EXCEPT !.m_largest_received_sn = Max(sn, @),
                                    !.m_smallest_received_sn = Min(sn, @)],
                          flow_sn, port, 0).b

\* the reorder buffer when on_read is inside addPacket, after the check
on_read_tracked(rx, b, nread, base, len) ==
    IF nread # 0 /\ len # 0 /\ sentinel_matches(base[1])
    THEN addPacket_tracked(b, base[2], base[3], rx.m_port)
    ELSE b

RECURSIVE received_total(_, _, _)
received_total(rxs, n, bytes) ==
    IF n = 0 THEN 0
    ELSE received_total(rxs, n - 1, bytes)
           + (IF bytes THEN rxs[n - 1].m_received_bytes
              ELSE rxs[n - 1].m_received_packets)

\* drops_timer_cb: the DBReportDrops it queues; media_rate is kept as the
\* pair of operands of the division (0.0 as <<0, 1>>)
drops_timer_cb(b, rxs, work, last_report_bytes, last_report_time, now) ==
    Append(work,
           [report |-> "drops", timestamp |-> now,
            media_rate |-> IF last_report_bytes # 0
                           THEN <<8 * (received_total(rxs, Cardinality(FlowPorts), TRUE)
                                         - last_report_bytes),
                                  now - last_report_time>>
                           ELSE <<0, 1>>,
            packets_total |-> received_total(rxs, Cardinality(FlowPorts), FALSE),
            packets_dropped |-> b.m_drops,
            duplicates |-> b.m_dups])

\* mutant: the timers run on a thread of their own
loop_idle_or_own_thread == TRUE
loop_idle == drv.pc = "alloc"

ReactorInit ==
    /\ rb = ReorderBuffer(IntakeLen)
    /\ burst_len = 0
    /\ flow_burst_len = 0
    /\ flow_burst_count = 0
    /\ \E st \in [FlowPorts -> Uninitialised] :
         drv = [pc |-> "alloc", port |-> 0, buf |-> <<>>, reads |-> 0,
                rx |-> [p \in FlowPorts |->
                          UDPReceiver(p, [i \in 1..PoolSize |-> st[p]])],
                work |-> <<>>, nread |-> 0, dgram |-> <<>>, called |-> FALSE,
                valid |-> {}, ticks |-> 0, last_report_bytes |-> 0,
                last_report_time |-> 0, cur |-> <<>>,
                committed |-> ReorderBuffer(IntakeLen)]

ReadBegin(nread, dgram, tracked, r) ==
    /\ rb' = tracked
    /\ drv' = [drv EXCEPT !.pc = "admit",
                          !.cur = <<[nread |-> nread, dgram |-> dgram, r |-> r]>>]
    /\ UNCHANGED <<burst_len, flow_burst_len, flow_burst_count>>

\* the datagrams of the sender: the whole preamble, MARKER first
SenderDatagrams == {dgram \in Datagrams : WellFormed(dgram)}

ReactorRead ==
    /\ drv.pc = "read"
    /\ \E dgram \in SenderDatagrams : \E junk \in Indeterminate(get_system_time_ns) :
         ReadBegin(WordBytes * Len(dgram), dgram,
                   on_read_tracked(drv.rx[drv.port], rb, WordBytes * Len(dgram),
                                   Received(drv.buf, dgram), PACKET_SIZE),
                   on_read(drv.rx[drv.port], rb, drv.work, WordBytes * Len(dgram),
                           Received(drv.buf, dgram), PACKET_SIZE,
                           get_system_time_ns, junk))

ReactorAdmit ==
    /\ drv.pc = "admit"
    /\ rb' = drv.cur[1].r.b
    /\ burst_len' = drv.cur[1].r.stream_burst_len
    /\ flow_burst_len' = drv.cur[1].r.burst_len
    /\ flow_burst_count' = drv.cur[1].r.burst_count
    /\ drv' = [drv EXCEPT !.pc = "alloc", !.buf = <<>>, !.reads = @ + 1,
                          !.rx[drv.port] = drv.cur[1].r.rx,
                          !.work = drv.cur[1].r.work,
                          !.nread = drv.cur[1].nread,
                          !.dgram = drv.cur[1].dgram,
                          !.called = drv.cur[1].r.called,
                          !.valid = IF WellFormed(drv.cur[1].dgram)
                                    THEN @ \cup {drv.port} ELSE @,
                          !.cur = <<>>,
                          !.committed = drv.cur[1].r.b]

ReactorFlowsTick ==
    /\ loop_idle
    /\ drv.ticks < MaxTicks
    /\ drv' = [drv EXCEPT !.ticks = @ + 1,
                          !.work = flows_timer_cb(rb, @, 0, Cardinality(FlowPorts), 0,
                                                  get_system_time_ns)]
    /\ UNCHANGED <<rb, burst_len, flow_burst_len, flow_burst_count>>

ReactorDropsTick ==
    /\ loop_idle
    /\ drv.ticks < MaxTicks
    /\ drv' = [drv EXCEPT !.ticks = @ + 1,
                          !.work = drops_timer_cb(rb, drv.rx, @, drv.last_report_bytes,
                                                  drv.last_report_time,
                                                  get_system_time_ns),
                          !.last_report_bytes =
                              received_total(drv.rx, Cardinality(FlowPorts), TRUE),
                          !.last_report_time = get_system_time_ns]
    /\ UNCHANGED <<rb, burst_len, flow_burst_len, flow_burst_count>>

ReactorNext ==
    my_alloc_cb \/ ReactorRead \/ ReactorAdmit \/ ReactorFlowsTick \/ ReactorDropsTick

SpecReactor == ReactorInit /\ [][ReactorNext]_vars

\* C39: arrival callbacks and the two timer callbacks never interleave: no
\* drops tick or flows tick observes a state in which a datagram's continuity
\* record has been updated but its reorder-buffer update has not yet been
\* applied.
C39_TicksSeeAppliedArrivals ==
    [][drv'.ticks # drv.ticks => (drv.pc # "admit" /\ rb = drv.committed)]_vars

C39_Witness ==
    /\ drv.ticks = 2
    /\ drv.reads = 2
    /\ drv.pc = "alloc"
    /\ Len(drv.work) >= 3
    /\ \E i \in 1..Len(drv.work) :
         drv.work[i].report = "flows" /\ drv.work[i].burst_count = 1
    /\ \E i \in 1..Len(drv.work) :
         drv.work[i].report = "drops" /\ drv.work[i].packets_total = 2

\* ---------------------------------------------------------------------------
\* DBRecorder under the worker threads of the loop's pool (receiver.cpp
\* 290-365, 369-422).  Each queued write is run by one worker: it calls the
\* add*Reading method of its record, which locks m_lock, resets the prepared
\* statement, binds the columns one by one (TEST_ERROR after each bind) and
\* steps the statement.  A step of a worker is one statement of the method;
\* steps of different workers interleave freely.
\*   drv.pc[t]     position of worker t: "idle", "lock" (blocked in or about
\*                 to call m_lock.lock()), "reset", "bind", "step"
\*   drv.req[t]    table of the record worker t writes
\*   drv.bound[t]  columns bound so far
\*   drv.m_lock    0 when the mutex is free, else the worker that owns it
\*   drv.queue     writes queued and not yet taken by a worker
\*   drv.queued, drv.rows, drv.errors   writes queued, rows stepped with
\*                 SQLITE_DONE, early returns after a bind error
Workers == 1..MaxWorkers

Tables == {"bursts", "drops", "sbursts", "flows"}

\* number of sqlite3_bind_* calls of the add*Reading method of each table
bind_count(table) ==
    CASE table = "bursts"  -> 6
      [] table = "drops"   -> 5
      [] table = "sbursts" -> 2
      [] table = "flows"   -> 7

SQLITE_OK == 0
SQLITE_ERROR == 1
SQLITE_DONE == 101

unlock(d) == [d EXCEPT !.m_lock = 0]

lock(d, t) == [d EXCEPT !.m_lock = t]

\* return from an add*Reading method on worker t: its locals are gone
returned(d, t) ==
    [d EXCEPT !.pc[t] = "idle", !.req[t] = "none", !.bound[t] = 0]

TEST_ERROR_keeps_lock(d, t) ==
    [returned(d, t) EXCEPT !.errors = @ + 1]

\* if (rc) { log; m_lock.unlock(); return; }   (taken with rc # 0)
TEST_ERROR(d, t) ==
    [returned(unlock(d), t) EXCEPT !.errors = @ + 1]

RecorderInit ==
    /\ rb = ReorderBuffer(1)
    /\ burst_len = 0
    /\ flow_burst_len = 0
    /\ flow_burst_count = 0
    /\ drv = [pc     |-> [t \in Workers |-> "idle"],
              req    |-> [t \in Workers |-> "none"],
              bound  |-> [t \in Workers |-> 0],
              m_lock |-> 0,
              queue  |-> <<>>,
              queued |-> 0,
              rows   |-> 0,
              errors |-> 0]

\* uv_queue_work on the loop thread: one more record write for the pool
QueueWork ==
    /\ drv.queued < MaxWrites
    /\ \E table \in Tables :
         drv' = [drv EXCEPT !.queue = Append(@, table), !.queued = @ + 1]
    /\ UNCHANGED <<rb, burst_len, flow_burst_len, flow_burst_count>>

\* db_*_reporter on worker t: dbRecorder is set before the loop runs, so the
\* add*Reading method of the record is called
WorkerTake(t) ==
    /\ drv.pc[t] = "idle"
    /\ drv.queue # <<>>
    /\ drv' = [drv EXCEPT !.queue = Tail(@), !.req[t] = Head(drv.queue),
                          !.pc[t] = "lock"]
    /\ UNCHANGED <<rb, burst_len, flow_burst_len, flow_burst_count>>

\* m_lock.lock(): returns once the mutex is free, owning it
WorkerLock(t) ==
    /\ drv.pc[t] = "lock"
    /\ drv.m_lock = 0
    /\ drv' = [lock(drv, t) EXCEPT !.pc[t] = "reset"]
    /\ UNCHANGED <<rb, burst_len, flow_burst_len, flow_burst_count>>

\* sqlite3_reset(stmt)
WorkerReset(t) ==
    /\ drv.pc[t] = "reset"
    /\ drv' = [drv EXCEPT !.pc[t] = "bind", !.bound[t] = 0]
    /\ UNCHANGED <<rb, burst_len, flow_burst_len, flow_burst_count>>

\* rc = sqlite3_bind_*(stmt, k, ...); TEST_ERROR;
WorkerBind(t) ==
    /\ drv.pc[t] = "bind"
    /\ \E rc \in {SQLITE_OK, SQLITE_ERROR} :
         drv' = IF rc # 0
                THEN TEST_ERROR(drv, t)
                ELSE [drv EXCEPT !.bound[t] = @ + 1,
                                 !.pc[t] = IF drv.bound[t] + 1 = bind_count(drv.req[t])
                                           THEN "step" ELSE "bind"]
    /\ UNCHANGED <<rb, burst_len, flow_burst_len, flow_burst_count>>

\* rc = sqlite3_step(stmt); log unless SQLITE_DONE; m_lock.unlock();
WorkerStep(t) ==
    /\ drv.pc[t] = "step"
    /\ \E rc \in {SQLITE_DONE, SQLITE_ERROR} :
         drv' = [returned(unlock(drv), t) EXCEPT
                    !.rows = IF rc = SQLITE_DONE THEN @ + 1 ELSE @]
    /\ UNCHANGED <<rb, burst_len, flow_burst_len, flow_burst_count>>

\* the statements a worker runs while it owns the mutex
InSection(t) == WorkerReset(t) \/ WorkerBind(t) \/ WorkerStep(t)

RecorderNext ==
    \/ QueueWork
    \/ \E t \in Workers : WorkerTake(t)
    \/ \E t \in Workers : WorkerLock(t)
    \/ \E t \in Workers : InSection(t)

SpecRecorder == RecorderInit /\ [][RecorderNext]_vars

\* a worker that is running is scheduled again and the sqlite3 calls return:
\* the owner of the mutex goes on to its next statement
SpecRecorderLive ==
    SpecRecorder /\ \A t \in Workers : WF_vars(InSection(t))

in_section(d, t) == d.pc[t] \in {"reset", "bind", "step"}

\* C40: at most one worker is inside the reset/bind/step section of an
\* add*Reading method at a time, that worker owns the lock, no worker that
\* has returned (after the step or after a bind error) or that still waits
\* owns it, and a lock that is owned is released again, so a waiting write is
\* not blocked forever.
C40_LockDiscipline ==
    /\ [](/\ Cardinality({t \in Workers : in_section(drv, t)}) <= 1
          /\ \A t \in Workers : in_section(drv, t) <=> drv.m_lock = t)
    /\ \A t \in Workers : (drv.m_lock = t) ~> (drv.m_lock = 0)

\* a write has returned early after a bind error, and afterwards one worker
\* is at the step of its statement while another waits for the lock
C40_Witness ==
    /\ drv.errors >= 1
    /\ \E t, u \in Workers :
         /\ drv.pc[t] = "step"
         /\ drv.m_lock = t
         /\ drv.pc[u] = "lock"

====
